---- MODULE Spec2Model ----
(***************************************************************************)
(* A model of the robots-respecting PDF pipeline of main.py: the two rate  *)
(* limiters, the robots cache, safe_get, the licence heuristic, discovery  *)
(* (search API and seed pages), storage and the manifest, and the per-URL  *)
(* processing loop of main().                                              *)
(*                                                                         *)
(* Strings the code inspects character by character (URLs, header values,  *)
(* content types) are sequences of one-character strings.  Strings the     *)
(* code only writes (reasons, exception texts) are TLA+ strings.  Time is  *)
(* counted in whole seconds.                                               *)
(***************************************************************************)
EXTENDS Integers, Sequences, FiniteSets, TLC

\* ------------------------------------------------------------ bounds

\* The longest time, in seconds, a network exchange takes to answer.
MaxLatency == 1

\* The most URLs one discovery call (one API answer, one seed page) yields.
MaxResults == 2

\* The value of time.time() when the process starts.  The limiters start
\* with last_time = 0.0, so any start time >= PER_DOMAIN_DELAY behaves alike.
StartTime == 10

\* The most calls made of a function exercised on its own.
MaxCalls == 3

\* The most seconds that pass between two calls of a limiter exercised on its
\* own.
MaxElapse == 11

\* ------------------------------------------------------------ strings

Alphabet ==
    <<" ", ",", "-", ".", "/", "0", "1", "2", "3", "4", "5", "6", "7", "8",
      "9", ":", ";", "=", "?", "A", "B", "C", "D", "E", "F", "G", "H", "I",
      "J", "K", "L", "M", "N", "O", "P", "Q", "R", "S", "T", "U", "V", "W",
      "X", "Y", "Z", "[", "]", "_", "a", "b", "c", "d", "e", "f", "g", "h", "i", "j",
      "k", "l", "m", "n", "o", "p", "q", "r", "s", "t", "u", "v", "w", "x",
      "y", "z">>

UpperCase ==
    <<"A", "B", "C", "D", "E", "F", "G", "H", "I", "J", "K", "L", "M", "N",
      "O", "P", "Q", "R", "S", "T", "U", "V", "W", "X", "Y", "Z">>

LowerCase ==
    <<"a", "b", "c", "d", "e", "f", "g", "h", "i", "j", "k", "l", "m", "n",
      "o", "p", "q", "r", "s", "t", "u", "v", "w", "x", "y", "z">>

Chars == {Alphabet[i] : i \in 1..Len(Alphabet)}

\* The code point order of the characters the model uses.
OrdTable == [c \in Chars |-> CHOOSE i \in 1..Len(Alphabet) : Alphabet[i] = c]

Ord(c) == OrdTable[c]

LowerTable ==
    [c \in Chars |->
        IF \E i \in 1..Len(UpperCase) : UpperCase[i] = c
        THEN LowerCase[CHOOSE i \in 1..Len(UpperCase) : UpperCase[i] = c]
        ELSE c]

LowerChar(c) == LowerTable[c]

\* str.lower()
Lower(s) == [i \in 1..Len(s) |-> LowerChar(s[i])]

\* str.endswith(suffix)
EndsWith(s, suffix) ==
    /\ Len(suffix) <= Len(s)
    /\ SubSeq(s, Len(s) - Len(suffix) + 1, Len(s)) = suffix

\* str.startswith(prefix)
StartsWith(s, prefix) ==
    /\ Len(prefix) <= Len(s)
    /\ SubSeq(s, 1, Len(prefix)) = prefix

\* sub in s
Contains(s, sub) ==
    \E i \in 1..(Len(s) - Len(sub) + 1) : SubSeq(s, i, i + Len(sub) - 1) = sub

\* The first index at which sub occurs in s from index from on, or 0.
Find(s, sub, from) ==
    LET hits == {i \in from..(Len(s) - Len(sub) + 1) :
                    SubSeq(s, i, i + Len(sub) - 1) = sub}
    IN  IF hits = {} THEN 0 ELSE CHOOSE i \in hits : \A j \in hits : i <= j

\* s < t in the order sorted() uses on str.
StrLess(s, t) ==
    \/ /\ Len(s) < Len(t)
       /\ SubSeq(t, 1, Len(s)) = s
    \/ \E i \in 1..Len(s) :
          /\ i <= Len(t)
          /\ SubSeq(s, 1, i - 1) = SubSeq(t, 1, i - 1)
          /\ Ord(s[i]) < Ord(t[i])

\* sorted(set of str)
RECURSIVE Sorted(_)
Sorted(S) ==
    IF S = {} THEN <<>>
    ELSE LET least == CHOOSE s \in S : \A t \in S \ {s} : StrLess(s, t)
         IN  <<least>> \o Sorted(S \ {least})

Max(a, b) == IF a >= b THEN a ELSE b

\* ------------------------------------------------------------ config

REQUESTS_PER_MIN == 10

SECONDS_PER_REQUEST == Max(6, 60 \div Max(1, REQUESTS_PER_MIN))

PER_DOMAIN_DELAY == 10

BING_ENDPOINT ==
    <<"h", "t", "t", "p", "s", ":", "/", "/", "a", "p", "i", ".", "b", "i",
      "n", "g", ".", "m", "i", "c", "r", "o", "s", "o", "f", "t", ".", "c",
      "o", "m", "/", "v", "7", ".", "0", "/", "s", "e", "a", "r", "c", "h">>

\* The alternatives of the two licence patterns, one phrase per alternative.
PERMISSIVE_LICENSE_PATTERNS ==
    {"creative commons", "cc-by", "cc-by-sa", "public domain",
     "open government licence", "u.s. government work", "17 usc 105"}

RESTRICTIVE_PATTERNS ==
    {"all rights reserved", "no reproduction", "no redistribution",
     "(c)", "copyright 2020"}

LIKELY_PUBLIC_TLDS ==
    {<<".", "g", "o", "v">>, <<".", "m", "i", "l">>, <<".", "e", "u">>,
     <<".", "i", "n", "t">>}

\* The cap on streamed content and the chunk size of iter_content, in bytes.
SIZE_CAP == 40 * 1024 * 1024

CHUNK_SIZE == 1024 * 64

\* ------------------------------------------------------------ utilities

\* The URLs of the modelled web: two documents, a page that is none, and a
\* seed page.
U_A == <<"h", "t", "t", "p", ":", "/", "/", "a", ".", "g", "o", "v", "/", "x", ".", "p", "d", "f">>

U_B == <<"h", "t", "t", "p", ":", "/", "/", "b", ".", "c", "o", "m", "/", "y", ".", "P", "D", "F">>

U_H == <<"h", "t", "t", "p", ":", "/", "/", "B", ".", "c", "o", "m", "/", "n", ".", "h", "t", "m", "l">>

SEED == <<"h", "t", "t", "p", ":", "/", "/", "b", ".", "c", "o", "m", "/">>

\* urllib.parse.urlparse(url), for URLs of the form scheme://netloc/path.
ParseUrl(url) ==
    LET p == Find(url, <<":", "/", "/">>, 1)
        rest == SubSeq(url, p + 3, Len(url))
        q == Find(rest, <<"/">>, 1)
        cut == IF q = 0 THEN Len(rest) + 1 ELSE q
    IN  [scheme |-> SubSeq(url, 1, p - 1),
         netloc |-> SubSeq(rest, 1, cut - 1),
         path |-> SubSeq(rest, cut, Len(rest))]

\* urlsplit raises ValueError("Invalid IPv6 URL") on a netloc with one
\* square bracket and not the other.
InvalidIPv6(url) ==
    /\ Contains(url, <<":", "/", "/">>)
    /\ LET netloc == ParseUrl(url).netloc
           Has(c) == \E i \in 1..Len(netloc) : netloc[i] = c
       IN  Has("[") # Has("]")

\* ParseUrl over the URLs above, computed once.
ParsedUrls == [u \in {U_A, U_B, U_H, SEED, BING_ENDPOINT} |-> ParseUrl(u)]

urlparse(url) == IF url \in DOMAIN ParsedUrls THEN ParsedUrls[url] ELSE ParseUrl(url)

domain_of(url) == Lower(urlparse(url).netloc)

tld_is_likely_public(netloc) ==
    \E tld \in LIKELY_PUBLIC_TLDS : EndsWith(netloc, tld)


sha256_table ==
    [b \in 1..10 |->
        <<"0", "0", "0", "0", "0", "0", "0", "0", "0", "0", "0",
          Alphabet[5 + b], "f", "f">>]

\* sha256_of_bytes(data): the hex digest, one table entry per distinct content.
sha256_of_bytes(data) == sha256_table[data.id]

\* ------------------------------------------------------------ the web

None == [none |-> TRUE]

\* Parsed robots rules: the path prefixes the rules disallow for the agent.
RuleSets == {{}, {<<"/", "y">>}}

\* What retrieving an origin's /robots.txt can end in: an exception out of
\* rp.read(), or rules.
RobotsOutcomes ==
    {[raise |-> TRUE, rules |-> {}]}
        \cup {[raise |-> FALSE, rules |-> r] : r \in RuleSets}

\* ------------------------------------------------------------ robots

\* rp.can_fetch(user_agent, url) on parsed rules.
rp_can_fetch(rules, url) ==
    ~ \E prefix \in rules : StartsWith(urlparse(url).path, prefix)

\* History kept beside the program's state: which limiters were acquired
\* since the last request, which requests were issued after which
\* acquisitions, when the last request went out (overall and per domain), the
\* gaps seen between consecutive requests, the robots gate's last answer per
\* URL and how often it was asked, the origins whose /robots.txt retrieval
\* failed, the exceptions raised and the files written per URL, how many bytes
\* were read of each URL's body, how many lines the manifest had when the run
\* began, the URLs discovery returned, with those it returned more than
\* once, and, while discovery runs, what each call of crawl_for_pdfs got and
\* returned.
NoHistory ==
    [old_lines |-> 0, read |-> <<>>, held |-> {}, requests |-> {}, sent |-> <<>>,
     crawled |-> <<>>,
     asked |-> <<>>, found |-> {}, found_again |-> {}, last_global |-> -1,
     last_domain |-> <<>>, global_gaps |-> {}, domain_gaps |-> {},
     gate |-> <<>>, robots_failed |-> {}, raised |-> <<>>, wrote |-> {}]

\* f with f[k] = v
Put(f, k, v) == [x \in DOMAIN f \cup {k} |-> IF x = k THEN v ELSE f[x]]

Min(a, b) == IF a <= b THEN a ELSE b

\* The element of a one-element set.  The({F(x) : x \in {e}}) is F(e) with e
\* evaluated once.
The(S) == CHOOSE x \in S : TRUE

\* wait() of a limiter returned for key.
Acquired(m, key) == [m EXCEPT !.h.held = @ \cup {key}]

\* A request by `by` to url goes on the wire at m.clock.  Gaps are kept for
\* the requests of safe_get and discover_via_bing, up to the limiters' delays.
Sent(machine, by, url) ==
    LET paced == by # "can_fetch"
        per_domain == by = "safe_get"
        Gaps(gaps, now, last, delay) == gaps \cup {Min(now - last, delay)}
        PerDomain(m, d) ==
            [m EXCEPT
               !.h.last_domain = Put(@, d, m.clock),
               !.h.domain_gaps =
                   IF d \notin DOMAIN m.h.last_domain THEN @
                   ELSE Gaps(@, m.clock, m.h.last_domain[d], PER_DOMAIN_DELAY)]
        Now(m, mm) ==
            [mm EXCEPT
               !.h.held = {},
               !.h.requests = @ \cup {[by |-> by, url |-> url, held |-> m.h.held]},
               !.h.sent = Put(@, url, IF url \in DOMAIN @ THEN @[url] + 1 ELSE 1),
               !.h.last_global = IF paced THEN m.clock ELSE @,
               !.h.global_gaps =
                   IF paced /\ m.h.last_global >= 0
                   THEN Gaps(@, m.clock, m.h.last_global, SECONDS_PER_REQUEST) ELSE @]
    IN  The({Now(m, IF per_domain THEN PerDomain(m, domain_of(url)) ELSE m) :
                m \in {machine}})

\* A faulty can_fetch: /robots.txt is retrieved at every call.
can_fetch_uncached(m, url, env) ==
    LET Base(parsed) == parsed.scheme \o <<":", "/", "/">> \o parsed.netloc
        Ret(mm, ret) ==
            [m |-> [mm EXCEPT
                      !.h.gate = Put(@, url, ret),
                      !.h.asked = Put(@, url, IF url \in DOMAIN @ THEN @[url] + 1 ELSE 1)],
             ret |-> ret]
        Read(base, m1) ==
            IF env.robots.raise
            THEN Ret([m1 EXCEPT !.h.robots_failed = @ \cup {base}], FALSE)
            ELSE Ret([m1 EXCEPT !.cache = Put(@, base, env.robots.rules)],
                     rp_can_fetch(env.robots.rules, url))
        Lookup(base, robots_url) ==
            Read(base, [Sent(m, "can_fetch", robots_url)
                           EXCEPT !.clock = @ + env.rlat])
        Gate(base) ==
            Lookup(base,
                   base \o <<"/", "r", "o", "b", "o", "t", "s", ".", "t", "x", "t">>)
    IN  The({Gate(base) : base \in {Base(urlparse(url))}})

\* RobotsCache.can_fetch(url) in machine state m; env gives what the network
\* does if /robots.txt is retrieved.  Returns the new machine state and the
\* result.
can_fetch(m, url, env) ==
    LET Base(parsed) == parsed.scheme \o <<":", "/", "/">> \o parsed.netloc
        Ret(mm, ret) ==
            [m |-> [mm EXCEPT
                      !.h.gate = Put(@, url, ret),
                      !.h.asked = Put(@, url, IF url \in DOMAIN @ THEN @[url] + 1 ELSE 1)],
             ret |-> ret]
        Read(base, m1) ==
            IF env.robots.raise
            THEN Ret([m1 EXCEPT !.h.robots_failed = @ \cup {base}], FALSE)
            ELSE Ret([m1 EXCEPT !.cache = Put(@, base, env.robots.rules)],
                     rp_can_fetch(env.robots.rules, url))
        Lookup(base, robots_url) ==
            IF base \notin DOMAIN m.cache
            THEN Read(base, [Sent(m, "can_fetch", robots_url)
                                EXCEPT !.clock = @ + env.rlat])
            ELSE Ret(m, rp_can_fetch(m.cache[base], url))
        Gate(base) ==
            Lookup(base,
                   base \o <<"/", "r", "o", "b", "o", "t", "s", ".", "t", "x", "t">>)
    IN  The({Gate(base) : base \in {Base(urlparse(url))}})

\* ------------------------------------------------------------ rate limiting

\* A faulty RateLimiter.wait(): the time is recorded and the sleep left out.
RateLimiter_wait_no_sleep(m) ==
    Acquired([m EXCEPT !.last_time = m.clock], <<"global_rl">>)

\* RateLimiter.wait() of global_rl
RateLimiter_wait(m) ==
    LET now == m.clock
        delta == now - m.last_time
        slept == IF delta < SECONDS_PER_REQUEST
                 THEN SECONDS_PER_REQUEST - delta ELSE 0
    IN  Acquired([m EXCEPT !.clock = now + slept, !.last_time = now + slept],
                 <<"global_rl">>)

\* A faulty PerDomainLimiter.wait: the time recorded is the time of the call,
\* not the time of return.
PerDomainLimiter_wait_records_call_time(m, netloc) ==
    LET now == m.clock
        last == IF netloc \in DOMAIN m.last_hit THEN m.last_hit[netloc] ELSE 0
        delta == now - last
        slept == IF delta < PER_DOMAIN_DELAY THEN PER_DOMAIN_DELAY - delta ELSE 0
    IN  Acquired([m EXCEPT !.clock = now + slept,
                           !.last_hit = Put(@, netloc, now)],
                 <<"domain_rl">> \o netloc)

\* PerDomainLimiter.wait(netloc) of domain_rl; last_hit is a defaultdict of 0.0
PerDomainLimiter_wait(m, netloc) ==
    LET now == m.clock
        last == IF netloc \in DOMAIN m.last_hit THEN m.last_hit[netloc] ELSE 0
        delta == now - last
        slept == IF delta < PER_DOMAIN_DELAY THEN PER_DOMAIN_DELAY - delta ELSE 0
    IN  Acquired([m EXCEPT !.clock = now + slept,
                           !.last_hit = Put(@, netloc, now + slept)],
                 <<"domain_rl">> \o netloc)

\* ------------------------------------------------------------ HTTP

\* requests.Response.__bool__: the response's ok, false for 4xx and 5xx.
Truthy(resp) ==
    /\ resp # None
    /\ ~ (400 <= resp.status_code /\ resp.status_code < 600)

\* A faulty safe_get: the robots gate is consulted and its answer ignored.
safe_get_ungated(m, url, env) ==
    LET Request(m1) ==
            [m |-> [Sent(RateLimiter_wait(m1), "safe_get", url)
                       EXCEPT !.clock = @ + env.lat],
             resp |-> IF env.fail THEN None ELSE env.resp]
        Gated(cf, netloc) == Request(PerDomainLimiter_wait(cf.m, netloc))
    IN  The({Gated(cf, netloc) :
                cf \in {can_fetch(m, url, env)}, netloc \in {domain_of(url)}})

\* safe_get(url): env gives the robots outcome, whether the transport fails,
\* the response and the latencies.  Returns the machine state and the response
\* or None.
safe_get(m, url, env) ==
    LET Request(m1) ==
            [m |-> [Sent(RateLimiter_wait(m1), "safe_get", url)
                       EXCEPT !.clock = @ + env.lat],
             resp |-> IF env.fail THEN None ELSE env.resp]
        Gated(cf, netloc) ==
            IF ~ cf.ret
            THEN [m |-> cf.m, resp |-> None]
            ELSE Request(PerDomainLimiter_wait(cf.m, netloc))
    IN  The({Gated(cf, netloc) :
                cf \in {can_fetch(m, url, env)}, netloc \in {domain_of(url)}})

\* ------------------------------------------------------------ licensing

FORBID_TAGS ==
    <<<<"n", "o", "i", "n", "d", "e", "x">>,
      <<"n", "o", "a", "r", "c", "h", "i", "v", "e">>,
      <<"n", "o", "a", "i">>,
      <<"n", "o", "f", "o", "l", "l", "o", "w">>,
      <<"n", "o", "n", "e">>>>

\* A faulty headers_forbid_use: the tag "noai" is missing from the list.
headers_forbid_use_without_noai(resp) ==
    LET xr == resp.headers.xrobots \o <<",">> \o resp.headers.xrobots
        tags == Lower(xr)
    IN  /\ xr # <<>>
        /\ \E i \in {1, 2, 4, 5} : Contains(tags, FORBID_TAGS[i])

\* headers_forbid_use(resp); resp.headers is case-insensitive, so both
\* lookups give the header's value.
headers_forbid_use(resp) ==
    LET xr == resp.headers.xrobots \o <<",">> \o resp.headers.xrobots
        tags == Lower(xr)
    IN  /\ xr # <<>>
        /\ \E i \in 1..Len(FORBID_TAGS) : Contains(tags, FORBID_TAGS[i])

text_looks_permissive(text) == text \cap PERMISSIVE_LICENSE_PATTERNS # {}

text_looks_restrictive(text) == text \cap RESTRICTIVE_PATTERNS # {}

\* pdf_text_preview(pdf_bytes): the phrases of the first pages, or the
\* exception PdfReader raises on bytes it cannot read.
pdf_text_preview(pdf_bytes) ==
    IF pdf_bytes.parse_error # ""
    THEN [exc |-> pdf_bytes.parse_error, text |-> {}]
    ELSE [exc |-> "", text |-> pdf_bytes.text]

\* A faulty is_public_enough: the TLD check comes before the permissive-text
\* check.
is_public_enough_tld_first(url, resp, pdf_bytes, netloc) ==
    IF headers_forbid_use(resp)
    THEN [exc |-> "", allowed |-> FALSE,
          reason |-> "Rejected: X-Robots-Tag forbids indexing/AI"]
    ELSE LET preview == pdf_text_preview(pdf_bytes)
         IN  IF preview.exc # ""
             THEN [exc |-> preview.exc, allowed |-> FALSE, reason |-> ""]
             ELSE IF tld_is_likely_public(netloc)
             THEN IF text_looks_restrictive(preview.text)
                  THEN [exc |-> "", allowed |-> FALSE,
                        reason |-> "Rejected: restrictive language on likely-public domain"]
                  ELSE [exc |-> "", allowed |-> TRUE,
                        reason |-> "Accepted: likely public TLD and no restrictive language found"]
             ELSE IF text_looks_permissive(preview.text)
             THEN [exc |-> "", allowed |-> TRUE,
                   reason |-> "Accepted: permissive license detected in text"]
             ELSE IF text_looks_restrictive(preview.text)
             THEN [exc |-> "", allowed |-> FALSE,
                   reason |-> "Rejected: restrictive licensing language found"]
             ELSE [exc |-> "", allowed |-> FALSE,
                   reason |-> "Rejected: no permissive license signal (conservative default)"]

\* is_public_enough(url, resp, pdf_bytes, netloc): (allowed, reason), or the
\* exception raised by the text preview.
is_public_enough(url, resp, pdf_bytes, netloc) ==
    IF headers_forbid_use(resp)
    THEN [exc |-> "", allowed |-> FALSE,
          reason |-> "Rejected: X-Robots-Tag forbids indexing/AI"]
    ELSE LET preview == pdf_text_preview(pdf_bytes)
         IN  IF preview.exc # ""
             THEN [exc |-> preview.exc, allowed |-> FALSE, reason |-> ""]
             ELSE IF text_looks_permissive(preview.text)
             THEN [exc |-> "", allowed |-> TRUE,
                   reason |-> "Accepted: permissive license detected in text"]
             ELSE IF tld_is_likely_public(netloc)
             THEN IF text_looks_restrictive(preview.text)
                  THEN [exc |-> "", allowed |-> FALSE,
                        reason |-> "Rejected: restrictive language on likely-public domain"]
                  ELSE [exc |-> "", allowed |-> TRUE,
                        reason |-> "Accepted: likely public TLD and no restrictive language found"]
             ELSE IF text_looks_restrictive(preview.text)
             THEN [exc |-> "", allowed |-> FALSE,
                   reason |-> "Rejected: restrictive licensing language found"]
             ELSE [exc |-> "", allowed |-> FALSE,
                   reason |-> "Rejected: no permissive license signal (conservative default)"]


\* ------------------------------------------------------------ storage

OUT_DIR == <<"public_pdfs", "/">>

\* str(n) for n >= 0
RECURSIVE Str(_)
Str(n) == IF n < 10 THEN <<Alphabet[6 + n]>>
          ELSE Str(n \div 10) \o <<Alphabet[6 + (n % 10)]>>

\* The characters sanitize_filename keeps: \w, "-" and ".".
IsWordChar(c) ==
    \/ c \in {"-", ".", "_"}
    \/ Ord(c) >= Ord("0") /\ Ord(c) <= Ord("9")
    \/ Ord(c) >= Ord("A") /\ Ord(c) <= Ord("Z")
    \/ Ord(c) >= Ord("a") /\ Ord(c) <= Ord("z")

\* re.sub(r"[^\w\-.]+", "_", name): each run of other characters becomes "_".
RECURSIVE SubUnsafe(_, _)
SubUnsafe(name, inRun) ==
    IF name = <<>> THEN <<>>
    ELSE IF IsWordChar(Head(name))
         THEN <<Head(name)>> \o SubUnsafe(Tail(name), FALSE)
         ELSE (IF inRun THEN <<>> ELSE <<"_">>) \o SubUnsafe(Tail(name), TRUE)

sanitize_filename(name) ==
    LET subbed == SubUnsafe(name, FALSE)
    IN  SubSeq(subbed, 1, IF Len(subbed) < 150 THEN Len(subbed) ELSE 150)

\* pathlib.Path(path).name: the last component of the path.
PathName(path) ==
    LET slashes == {i \in 1..Len(path) : path[i] = "/"}
        last == IF slashes = {} THEN 0
                ELSE CHOOSE i \in slashes : \A j \in slashes : j <= i
    IN  SubSeq(path, last + 1, Len(path))

\* A faulty file name: the prefix is taken from the URL, not from the content.
SavePath_prefix_of_url(url, content) ==
    LET hash_prefix == SubSeq(sha256_table[(Len(url) % 8) + 1], 1, 12)
        name == PathName(urlparse(url).path)
        slug == sanitize_filename(
                    IF name = <<>>
                    THEN <<"d", "o", "c", "u", "m", "e", "n", "t", ".", "p", "d", "f">>
                    ELSE name)
    IN  OUT_DIR \o hash_prefix \o <<"_", "_">> \o slug

\* The file name save_pdf gives content fetched from url.
SavePath(url, content) ==
    LET hash_prefix == SubSeq(sha256_of_bytes(content), 1, 12)
        name == PathName(urlparse(url).path)
        slug == sanitize_filename(
                    IF name = <<>>
                    THEN <<"d", "o", "c", "u", "m", "e", "n", "t", ".", "p", "d", "f">>
                    ELSE name)
    IN  OUT_DIR \o hash_prefix \o <<"_", "_">> \o slug

\* What a file holds when the write that was filling it failed.
Partial ==
    [id |-> 0, size |-> 0, text |-> {}, parse_error |-> "", hrefs |-> {},
     magic |-> <<>>]

\* save_pdf(url, content) on the files of the output directory.  how is what
\* the file system does: "ok", or the exception open() or write() raises.
\* Returns the files, the path, and the exception text ("" if none).
save_pdf(fs, url, content, how) ==
    LET Write(path, data) ==
            [q \in DOMAIN fs \cup {path} |-> IF q = path THEN data ELSE fs[q]]
        Save(path) ==
            CASE how = "open_fails" ->
                   [files |-> fs, path |-> path, exc |-> "Permission denied"]
              [] how = "write_fails" ->
                   [files |-> Write(path, Partial), path |-> path,
                    exc |-> "No space left on device"]
              [] OTHER ->
                   [files |-> Write(path, content), path |-> path, exc |-> ""]
    IN  Save(SavePath(url, content))

FIELDNAMES ==
    [timestamp |-> <<"timestamp">>, source_url |-> <<"source_url">>,
     status |-> <<"status">>, reason |-> <<"reason">>,
     http_status |-> <<"http_status">>, content_type |-> <<"content_type">>,
     saved_path |-> <<"saved_path">>, sha256 |-> <<"sha256">>]

\* A faulty record_manifest: the call that creates the file writes the header
\* and loses the row.
record_manifest_header_only(mf, row) ==
    IF ~ mf.exists
    THEN [exists |-> TRUE, lines |-> Append(mf.lines, FIELDNAMES)]
    ELSE [mf EXCEPT !.lines = Append(@, row)]

\* A faulty record_manifest: the header is written at every call.
record_manifest_always_header(mf, row) ==
    [exists |-> TRUE, lines |-> Append(Append(mf.lines, FIELDNAMES), row)]

\* record_manifest(row) on the manifest file mf = [exists, lines].
record_manifest(mf, row) ==
    LET file_exists == mf.exists
        opened == [exists |-> TRUE, lines |-> mf.lines]
        headed == IF ~ file_exists
                  THEN [opened EXCEPT !.lines = Append(@, FIELDNAMES)]
                  ELSE opened
    IN  [headed EXCEPT !.lines = Append(@, row)]

Row(ts, url, status, reason, http_status, content_type, saved_path, sha) ==
    [timestamp |-> Str(ts), source_url |-> url, status |-> <<status>>,
     reason |-> reason, http_status |-> http_status,
     content_type |-> content_type, saved_path |-> saved_path, sha256 |-> sha]


\* ------------------------------------------------------------ the web's answers

\* The URLs a search answer can list, and the href values a seed page can hold.
ResultUrls == {U_A, U_B, U_H}

Hrefs == {U_A, <<"y", ".", "P", "D", "F">>, U_H}

CT_PDF == <<"a", "p", "p", "l", "i", "c", "a", "t", "i", "o", "n", "/", "p", "d", "f">>

CT_HTML == <<"T", "e", "x", "t", "/", "H", "T", "M", "L">>

ContentTypes == {CT_PDF, CT_HTML}

\* X-Robots-Tag values: absent, and one that forbids.
XR_NOAI == <<"N", "o", "A", "I">>

XRobotsValues == {<<>>, XR_NOAI}

StatusCodes == {200, 304, 404, 999}

\* The first four bytes of a PDF file, and of the HTML documents of the model.
PDF_MAGIC == <<"%", "P", "D", "F">>

HTML_MAGIC == <<"<", "h", "t", "m">>

\* A body that begins with the PDF signature.
Body(id, size, text, parse_error) ==
    [id |-> id, size |-> size, text |-> text, parse_error |-> parse_error,
     hrefs |-> {}, magic |-> PDF_MAGIC]

NoBody == Body(0, 0, {}, "")

\* PDF bodies: the four text signals at a small size, the sizes around the
\* cap, and one PdfReader cannot read.
Bodies ==
    {Body(1, 2000, {}, ""),
     Body(2, 2000, {"public domain"}, ""),
     Body(3, 2000, {"all rights reserved"}, ""),
     Body(4, 2000, {"creative commons", "copyright 2020"}, ""),
     Body(5, SIZE_CAP, {"public domain"}, ""),
     Body(6, SIZE_CAP + 1, {"public domain"}, ""),
     Body(7, 41 * 1024 * 1024, {"public domain"}, ""),
     Body(8, 2000, {}, "EOF marker not found")}

\* Bodies that do not begin with the PDF signature: an HTML document, which
\* PdfReader cannot read, and a PDF behind leading bytes, which it can.
HtmlDocument ==
    [Body(9, 2000, {}, "EOF marker not found") EXCEPT !.magic = HTML_MAGIC]

PrefixedPdf == [Body(10, 2000, {}, "") EXCEPT !.magic = HTML_MAGIC]

\* An href value that urljoin cannot parse.
BadHref == <<"h", "t", "t", "p", ":", "/", "/", "[", "x", ".", "p", "d", "f">>

\* Seed pages with such an href, alone and beside a good one.
BadPages ==
    {[id |-> 0, size |-> 0, text |-> {}, parse_error |-> "", hrefs |-> h,
      magic |-> HTML_MAGIC] :
        h \in {{BadHref}, {U_A, BadHref}}}

\* Seed pages: an HTML body with href values.
Pages ==
    {[id |-> 0, size |-> 0, text |-> {}, parse_error |-> "", hrefs |-> h,
      magic |-> HTML_MAGIC] :
        h \in {g \in SUBSET Hrefs : Cardinality(g) <= MaxResults}}

Response(status, ctype, xrobots, url, body) ==
    [status_code |-> status,
     headers |-> [ctype |-> ctype, xrobots |-> xrobots],
     url |-> url, body |-> body]

\* The environment of one safe_get: what /robots.txt retrieval does (used
\* only if the origin is not cached), whether the transport fails, what
\* the server answers, and how long each exchange takes.
Env(robots, rlat, fail, resp, lat) ==
    [robots |-> robots, rlat |-> rlat, fail |-> fail, resp |-> resp, lat |-> lat]

\* One run's network is drawn from one of three profiles.  Each varies one
\* aspect in full and keeps the others to a few values:
\*   "content"  what the servers answer (the host a.gov answers anything),
\*   "robots"   what retrieving /robots.txt does,
\*   "timing"   how long the exchanges take.
Profiles == {"content", "robots", "timing"}

Latencies(profile) == IF profile = "timing" THEN 0..MaxLatency ELSE {0}

AllowAll == [raise |-> FALSE, rules |-> {}]

RobotsAnswers(profile) == IF profile = "robots" THEN RobotsOutcomes ELSE {AllowAll}

\* The robots part of the environment, where it matters.
RobotsEnvs(profile, m, url) ==
    LET parsed == urlparse(url)
        base == parsed.scheme \o <<":", "/", "/">> \o parsed.netloc
    IN  IF base \in DOMAIN m.cache
        THEN {[robots |-> AllowAll, rlat |-> 0]}
        ELSE [robots : RobotsAnswers(profile), rlat : Latencies(profile)]

\* The host that answers anything in the "content" profile.
AnswersAnything(profile, url) ==
    profile = "content" /\ domain_of(url) = <<"a", ".", "g", "o", "v">>

PlainPdf == Body(2, 2000, {"public domain"}, "")

\* Answers to the first request for a candidate URL: the body is not read.
HeadAnswers(profile, url) ==
    IF AnswersAnything(profile, url)
    THEN {[fail |-> TRUE, resp |-> None]}
            \cup {[fail |-> FALSE, resp |-> Response(s, c, x, url, NoBody)] :
                    s \in StatusCodes, c \in ContentTypes, x \in XRobotsValues}
    ELSE {[fail |-> TRUE, resp |-> None],
          [fail |-> FALSE, resp |-> Response(200, CT_PDF, <<>>, url, NoBody)]}

\* Answers to the second request, with what the stream and the file system
\* do afterwards: stream_exc is the exception iter_content raises ("" if
\* none), save_how what open() and write() do in save_pdf.  The body matters
\* for a 2xx status only, the file system for an accepted body only.
GetAnswer(fail, resp, stream_exc, save_how) ==
    [fail |-> fail, resp |-> resp, stream_exc |-> stream_exc, save_how |-> save_how]

GetAnswers(profile, url) ==
    IF AnswersAnything(profile, url)
    THEN {GetAnswer(TRUE, None, "", "ok")}
            \cup {GetAnswer(FALSE, Response(s, c, <<>>, url, NoBody), "", "ok") :
                    s \in StatusCodes \ {200}, c \in ContentTypes}
            \cup {GetAnswer(FALSE, Response(200, CT_PDF, x, url, b), "", "ok") :
                    x \in XRobotsValues, b \in Bodies}
            \cup {GetAnswer(FALSE, Response(200, CT_HTML, <<>>, url, b), "", "ok") :
                    b \in {HtmlDocument, PrefixedPdf}}
            \cup {GetAnswer(FALSE, Response(200, CT_HTML, <<>>, url, PlainPdf), "", "ok"),
                  GetAnswer(FALSE, Response(200, CT_PDF, <<>>, url, PlainPdf),
                            "Connection broken", "ok"),
                  GetAnswer(FALSE, Response(200, CT_PDF, <<>>, url, PlainPdf),
                            "", "open_fails"),
                  GetAnswer(FALSE, Response(200, CT_PDF, <<>>, url, PlainPdf),
                            "", "write_fails")}
    ELSE {GetAnswer(TRUE, None, "", "ok"),
          GetAnswer(FALSE, Response(200, CT_PDF, <<>>, url, PlainPdf), "", "ok"),
          GetAnswer(FALSE, Response(200, CT_PDF, <<>>, url, Body(1, 2000, {}, "")), "", "ok")}

\* A page with one link to a PDF.
LinkPage ==
    [id |-> 0, size |-> 0, text |-> {}, parse_error |-> "", hrefs |-> {U_A},
     magic |-> HTML_MAGIC]

\* Answers to the request for a seed page.
PageAnswers(profile, url) ==
    {[fail |-> TRUE, resp |-> None]}
        \cup {[fail |-> FALSE, resp |-> Response(200, CT_HTML, <<>>, url, pg)] :
                pg \in Pages \cup BadPages}
        \cup IF profile = "content"
             THEN {[fail |-> FALSE, resp |-> Response(s, CT_HTML, <<>>, url, NoBody)] :
                     s \in StatusCodes \ {200}}
                     \cup {[fail |-> FALSE, resp |-> Response(200, CT_PDF, <<>>, url, NoBody)]}
                     \cup {[fail |-> FALSE, resp |-> Response(304, CT_HTML, <<>>, url, LinkPage)],
                           [fail |-> FALSE, resp |-> Response(200, CT_PDF, <<>>, url, LinkPage)]}
             ELSE {}

\* ------------------------------------------------------------ state

VARIABLES
    pc,             \* where main() is
    profile,        \* the profile this run's network is drawn from
    config,         \* SearchTerms: SEARCH_TERMS, SEED_URLS, ALLOWED_DOMAINS; BING_API_KEY
    term_i,         \* index of the next search term
    seed_i,         \* index of the next seed
    seen_urls,      \* main's seen_urls
    queue,          \* sorted(seen_urls), the list the loop iterates
    url_i,          \* index in queue of the URL being processed
    ts,             \* main's ts for the URL being processed
    head_resp,      \* main's head_resp
    get_resp,       \* main's get_resp
    clock,          \* time.time()
    last_time,      \* global_rl.last_time
    last_hit,       \* domain_rl.last_hit
    cache,          \* robots_cache.cache
    manifest,       \* the file MANIFEST_CSV
    files,          \* the files of OUT_DIR
    history,        \* history: requests, limiter acquisitions, outcomes
    license_call,   \* history: the last call of is_public_enough
    probe           \* history: the calls of a function exercised on its own

vars == <<pc, profile, config, term_i, seed_i, seen_urls, queue, url_i, ts, head_resp,
          get_resp, clock, last_time, last_hit, cache, manifest, files,
          history, license_call, probe>>

\* The state of the limiters, the robots cache and the clock, as one record.
Machine ==
    [clock |-> clock, last_time |-> last_time, last_hit |-> last_hit,
     cache |-> cache, h |-> history]

SetMachine(m) ==
    /\ clock' = m.clock
    /\ last_time' = m.last_time
    /\ last_hit' = m.last_hit
    /\ cache' = m.cache
    /\ history' = m.h


\* ------------------------------------------------------------ discovery

\* str.strip(), for the blanks the model uses
RECURSIVE Strip(_)
Strip(s) ==
    IF s # <<>> /\ Head(s) = " " THEN Strip(Tail(s))
    ELSE IF s # <<>> /\ s[Len(s)] = " " THEN Strip(SubSeq(s, 1, Len(s) - 1))
    ELSE s

\* str.lstrip(".")
RECURSIVE LStripDot(_)
LStripDot(s) == IF s # <<>> /\ Head(s) = "." THEN LStripDot(Tail(s)) ELSE s

\* urllib.parse.urljoin(base, url): an absolute url as it is, a relative one
\* in place of the last component of base.
urljoin(base, url) ==
    IF Contains(url, <<":", "/", "/">>) THEN url
    ELSE LET slashes == {i \in 1..Len(base) : base[i] = "/"}
             last == CHOOSE i \in slashes : \A j \in slashes : j <= i
         IN  SubSeq(base, 1, last) \o url

IsPdfName(s) == EndsWith(Lower(s), <<".", "p", "d", "f">>)

\* The elements of a list, as a set.
Elems(list) == {list[i] : i \in 1..Len(list)}

\* What the search API can do: fail (transport, status, JSON), list URLs, or
\* answer JSON of another shape than the code reads (a result whose url is
\* null).
BingAnswers ==
    {[fail |-> TRUE, value |-> <<>>, malformed |-> FALSE],
     [fail |-> FALSE, value |-> <<>>, malformed |-> TRUE]}
        \cup {[fail |-> FALSE, value |-> v, malformed |-> FALSE] :
                v \in UNION {[1..n -> ResultUrls] : n \in 0..MaxResults}}

\* A faulty discover_via_bing: the query is sent without a look at the key.
discover_via_bing_without_key_check(m, key, answer, lat) ==
    LET Answered(m1) ==
            IF answer.fail
            THEN [m |-> m1, urls |-> <<>>, exc |-> ""]
            ELSE IF answer.malformed
            THEN [m |-> m1, urls |-> <<>>,
                  exc |-> "'NoneType' object has no attribute 'lower'"]
            ELSE [m |-> m1, urls |-> SelectSeq(answer.value, IsPdfName), exc |-> ""]
    IN  Answered([Sent(RateLimiter_wait(m), "discover_via_bing", BING_ENDPOINT)
                          EXCEPT !.clock = @ + lat])

\* discover_via_bing(query): the machine state and the URLs returned, or the
\* exception raised (exc, "" if none) by the loop over the results, which is
\* outside the try block.
discover_via_bing(m, key, answer, lat) ==
    LET Answered(m1) ==
            IF answer.fail
            THEN [m |-> m1, urls |-> <<>>, exc |-> ""]
            ELSE IF answer.malformed
            THEN [m |-> m1, urls |-> <<>>,
                  exc |-> "'NoneType' object has no attribute 'lower'"]
            ELSE [m |-> m1, urls |-> SelectSeq(answer.value, IsPdfName), exc |-> ""]
    IN  IF Strip(key) = <<>>
        THEN [m |-> m, urls |-> <<>>, exc |-> ""]
        ELSE Answered([Sent(RateLimiter_wait(m), "discover_via_bing", BING_ENDPOINT)
                          EXCEPT !.clock = @ + lat])

\* A faulty crawl_for_pdfs: the links are taken from the response whatever
\* its status and content type.
crawl_for_pdfs_of_any_response(m, seed_url, env) ==
    LET Return(mm, resp, urls, exc) ==
            [m |-> [mm EXCEPT !.h.crawled =
                       Append(@, [seed |-> seed_url, resp |-> resp, urls |-> urls])],
             urls |-> urls, exc |-> exc]
        Joined(mm, resp, matched) ==
            IF \E h \in matched : InvalidIPv6(h)
            THEN Return(mm, resp, {}, "Invalid IPv6 URL")
            ELSE Return(mm, resp, {urljoin(resp.url, h) : h \in matched}, "")
        Links(mm, resp) ==
            IF ~ Truthy(resp)
            THEN Return(mm, resp, {}, "")
            ELSE Joined(mm, resp, {g \in resp.body.hrefs : IsPdfName(g)})
    IN  The({Links(r.m, r.resp) : r \in {safe_get(m, seed_url, env)}})

\* crawl_for_pdfs(seed_url): the machine state and the links returned, or
\* the exception urljoin raised (exc, "" if none).
crawl_for_pdfs(m, seed_url, env) ==
    LET Return(mm, resp, urls, exc) ==
            [m |-> [mm EXCEPT !.h.crawled =
                       Append(@, [seed |-> seed_url, resp |-> resp, urls |-> urls])],
             urls |-> urls, exc |-> exc]
        Joined(mm, resp, matched) ==
            IF \E h \in matched : InvalidIPv6(h)
            THEN Return(mm, resp, {}, "Invalid IPv6 URL")
            ELSE Return(mm, resp, {urljoin(resp.url, h) : h \in matched}, "")
        Links(mm, resp) ==
            IF ~ Truthy(resp) \/ ~ (200 <= resp.status_code /\ resp.status_code < 300)
            THEN Return(mm, resp, {}, "")
            ELSE IF ~ Contains(Lower(resp.headers.ctype),
                               <<"t", "e", "x", "t", "/", "h", "t", "m", "l">>)
            THEN Return(mm, resp, {}, "")
            ELSE Joined(mm, resp, {g \in resp.body.hrefs : IsPdfName(g)})
    IN  The({Links(r.m, r.resp) : r \in {safe_get(m, seed_url, env)}})

\* The domain filter of main().
DomainFilter(urls, allowed) ==
    IF allowed = <<>> THEN urls
    ELSE {u \in urls :
            \E i \in 1..Len(allowed) :
               \/ EndsWith(domain_of(u), Lower(allowed[i]))
               \/ domain_of(u) = LStripDot(Lower(allowed[i]))}


\* ------------------------------------------------------------ the per-URL block

\* main(), the condition of the not_pdf skip: ctype is the lowered content
\* type of the first response.
not_pdf(ctype, url) ==
    /\ ~ Contains(ctype, <<"p", "d", "f">>)
    /\ ~ EndsWith(Lower(url), <<".", "p", "d", "f">>)

\* main(), the condition of the not_pdf_after_get skip.
not_pdf_after_get(content_type, url) ==
    /\ ~ Contains(Lower(content_type),
                  <<"a", "p", "p", "l", "i", "c", "a", "t", "i", "o", "n", "/", "p", "d", "f">>)
    /\ ~ EndsWith(Lower(url), <<".", "p", "d", "f">>)

\* A faulty streamed read: the length is compared with >= instead of >.
ReadChunks_at_cap(size) ==
    LET nchunks == (size + CHUNK_SIZE - 1) \div CHUNK_SIZE
        LenAfter(k) == IF k * CHUNK_SIZE < size THEN k * CHUNK_SIZE ELSE size
        over == {k \in 1..nchunks : LenAfter(k) >= SIZE_CAP}
    IN  IF over = {}
        THEN [exc |-> "", len |-> size]
        ELSE [exc |-> "file_too_large",
              len |-> LenAfter(CHOOSE k \in over : \A j \in over : k <= j)]

\* The streamed read of main(): chunks of CHUNK_SIZE are appended to content
\* and len(content) is compared with the cap after each one.  The read raises
\* at the first chunk that takes the length past the cap.
ReadChunks(size) ==
    LET nchunks == (size + CHUNK_SIZE - 1) \div CHUNK_SIZE
        LenAfter(k) == IF k * CHUNK_SIZE < size THEN k * CHUNK_SIZE ELSE size
        over == {k \in 1..nchunks : LenAfter(k) > SIZE_CAP}
    IN  IF over = {}
        THEN [exc |-> "", len |-> size]
        ELSE [exc |-> "file_too_large",
              len |-> LenAfter(CHOOSE k \in over : \A j \in over : k <= j)]

\* iter_content raising stream_exc (a broken connection) ends the read at once.
ReadStream(resp, stream_exc) ==
    IF stream_exc # "" THEN [exc |-> stream_exc, len |-> 0]
    ELSE ReadChunks(resp.body.size)

NoCall == [called |-> FALSE]

\* A faulty first stage: a failed check is recorded and the iteration goes on
\* to the second request all the same.
HeadStage_without_continue(m, mf, url, env) ==
    LET t == m.clock
        Checks(mm, resp) ==
            LET Skip(reason, http_status, content_type) ==
                    [m |-> mm, next |-> TRUE, ts |-> t, resp |-> resp,
                     manifest |-> record_manifest(mf,
                         Row(t, url, "skipped", reason, http_status, content_type,
                             <<>>, <<>>))]
                Answered(status, ctype) ==
                    IF ~ (200 <= resp.status_code /\ resp.status_code < 400)
                    THEN Skip(<<"http_">> \o status, status, ctype)
                    ELSE IF not_pdf(ctype, url)
                    THEN Skip(<<"not_pdf">>, status, ctype)
                    ELSE IF headers_forbid_use(resp)
                    THEN Skip(<<"x-robots-tag_forbids">>, status, ctype)
                    ELSE [m |-> mm, next |-> TRUE, ts |-> t, resp |-> resp,
                          manifest |-> mf]
            IN  IF ~ Truthy(resp)
                THEN Skip(<<"robots_disallow_or_request_failed">>, <<>>, <<>>)
                ELSE Answered(Str(resp.status_code), Lower(resp.headers.ctype))
    IN  The({Checks(r.m, r.resp) : r \in {safe_get(m, url, env)}})

\* main(), one iteration up to the second request: the first request and the
\* checks on its response.  next tells whether the iteration goes on to the
\* second request.
HeadStage(m, mf, url, env) ==
    LET t == m.clock
        Checks(mm, resp) ==
            LET Skip(reason, http_status, content_type) ==
                    [m |-> mm, next |-> FALSE, ts |-> t, resp |-> resp,
                     manifest |-> record_manifest(mf,
                         Row(t, url, "skipped", reason, http_status, content_type,
                             <<>>, <<>>))]
                Answered(status, ctype) ==
                    IF ~ (200 <= resp.status_code /\ resp.status_code < 400)
                    THEN Skip(<<"http_">> \o status, status, ctype)
                    ELSE IF not_pdf(ctype, url)
                    THEN Skip(<<"not_pdf">>, status, ctype)
                    ELSE IF headers_forbid_use(resp)
                    THEN Skip(<<"x-robots-tag_forbids">>, status, ctype)
                    ELSE [m |-> mm, next |-> TRUE, ts |-> t, resp |-> resp,
                          manifest |-> mf]
            IN  IF ~ Truthy(resp)
                THEN Skip(<<"robots_disallow_or_request_failed">>, <<>>, <<>>)
                ELSE Answered(Str(resp.status_code), Lower(resp.headers.ctype))
    IN  The({Checks(r.m, r.resp) : r \in {safe_get(m, url, env)}})

\* A faulty except clause: the exception is swallowed and nothing is recorded.
except_clause_silent(mf, t, url, e) == mf

\* main(), the except clause of the per-URL block: the manifest after the
\* exception with text e was caught.
except_clause(mf, t, url, e) ==
    record_manifest(mf, Row(t, url, "error", <<e>>, <<>>, <<>>, <<>>, <<>>))

\* main(), the rest of the iteration: the second request, the streamed read,
\* the licence check, the save, and the except clause of the per-URL block.
GetStage(m, mf, fs, url, t, env, stream_exc, save_how) ==
    LET Rest(mm, resp) ==
            LET End(m1, mf1, fls, call) ==
                    [m |-> m1, resp |-> resp, files |-> fls, call |-> call,
                     manifest |-> mf1]
                Record(status, reason, http_status, content_type, saved_path, sha) ==
                    record_manifest(mf,
                        Row(t, url, status, reason, http_status, content_type,
                            saved_path, sha))
                Read(m1, read) == [m1 EXCEPT !.h.read = Put(@, url, read.len)]
                Wrote(m1) == [m1 EXCEPT !.h.wrote = @ \cup {url}]
                Except(m1, e, fls, call) ==
                    End([m1 EXCEPT !.h.raised = Put(@, url, e),
                                   !.h.wrote = IF fls = fs THEN @ ELSE @ \cup {url}],
                        except_clause(mf, t, url, e), fls, call)
                Call(content, netloc, lic) ==
                    [called |-> TRUE, resp |-> resp, pdf_bytes |-> content,
                     netloc |-> netloc, result |-> lic]
                Saved(m1, http_status, content_type, content, lic, call, sv) ==
                    IF sv.exc # ""
                    THEN Except(m1, sv.exc, sv.files, call)
                    ELSE End(Wrote(m1),
                             Record("saved", <<lic.reason>>, http_status, content_type,
                                    sv.path, sha256_of_bytes(content)),
                             sv.files, call)
                Judged(m1, http_status, content_type, content, lic, call) ==
                    IF lic.exc # ""
                    THEN Except(m1, lic.exc, fs, call)
                    ELSE IF ~ lic.allowed
                    THEN End(m1,
                             Record("rejected", <<lic.reason>>, http_status,
                                    content_type, <<>>, sha256_of_bytes(content)),
                             fs, call)
                    ELSE The({Saved(m1, http_status, content_type, content, lic,
                                    call, sv) :
                                 sv \in {save_pdf(fs, url, content, save_how)}})
                Licence(m1, http_status, content_type, content, netloc) ==
                    The({Judged(m1, http_status, content_type, content, lic,
                                Call(content, netloc, lic)) :
                            lic \in {is_public_enough(url, resp, content, netloc)}})
                Streamed(m1, http_status, content_type, read) ==
                    IF read.exc # ""
                    THEN End(m1,
                             Record("skipped", <<"stream_error:", read.exc>>,
                                    http_status, content_type, <<>>, <<>>),
                             fs, NoCall)
                    ELSE Licence(m1, http_status, content_type, resp.body,
                                 domain_of(url))
                Answered(http_status, content_type) ==
                    IF not_pdf_after_get(content_type, url)
                    THEN End(mm,
                             Record("skipped", <<"not_pdf_after_get">>, http_status,
                                    content_type, <<>>, <<>>),
                             fs, NoCall)
                    ELSE The({Streamed(Read(mm, read), http_status, content_type,
                                       read) :
                                 read \in {ReadStream(resp, stream_exc)}})
            IN  IF ~ Truthy(resp)
                THEN End(mm,
                         Record("skipped", <<"get_failed">>, <<>>, <<>>, <<>>, <<>>),
                         fs, NoCall)
                ELSE IF ~ (200 <= resp.status_code /\ resp.status_code < 300)
                THEN End(mm,
                         Record("skipped", <<"get_failed">>, Str(resp.status_code),
                                resp.headers.ctype, <<>>, <<>>),
                         fs, NoCall)
                ELSE Answered(Str(resp.status_code), resp.headers.ctype)
    IN  The({Rest(r.m, r.resp) : r \in {safe_get(m, url, env)}})

\* ------------------------------------------------------------ main()

NoManifest == [exists |-> FALSE, lines |-> <<>>]


\* A manifest left by an earlier run: the header and one row.
OldManifest ==
    [exists |-> TRUE,
     lines |-> <<FIELDNAMES,
                 Row(1, U_B, "skipped", <<"get_failed">>, <<>>, <<>>, <<>>, <<>>)>>]

\* What SearchTerms.py and the environment can hold: BING_API_KEY unset,
\* blank or set; import_error is the exception the import of SearchTerms and
\* the reading of its lists raise ("" if none).
Configs ==
    [SEARCH_TERMS : {<<>>, <<"ups sizing">>},
     SEED_URLS : {<<>>, <<SEED>>},
     ALLOWED_DOMAINS : {<<>>, <<<<"A", ".", "g", "o", "v">>>>},
     BING_API_KEY : {<<>>, <<" ">>, <<"k">>},
     import_error : {""}]
        \cup [SEARCH_TERMS : {<<>>, <<"ups sizing">>},
              SEED_URLS : {<<>>, <<SEED>>},
              ALLOWED_DOMAINS : {<<>>},
              BING_API_KEY : {<<"k">>},
              import_error : {"No module named 'SearchTerms'"}]

Init ==
    /\ pc = "start"
    /\ profile \in Profiles
    /\ config \in Configs
    /\ term_i = 1
    /\ seed_i = 1
    /\ seen_urls = {}
    /\ queue = <<>>
    /\ url_i = 1
    /\ ts = 0
    /\ head_resp = None
    /\ get_resp = None
    /\ clock = StartTime
    /\ last_time = 0
    /\ last_hit = <<>>
    /\ cache = <<>>
    /\ manifest \in {NoManifest, OldManifest}
    /\ files = <<>>
    /\ history = [NoHistory EXCEPT !.old_lines = Len(manifest.lines)]
    /\ license_call = NoCall
    /\ probe = <<>>

\* A faulty start of main(): the discovery loops are entered whatever the
\* configuration.
Start_without_checks ==
    /\ pc = "start"
    /\ pc' = "discover"
    /\ UNCHANGED <<probe, profile, config, term_i, seed_i, seen_urls, queue, url_i, ts,
                   head_resp, get_resp, clock, last_time, last_hit, cache,
                   manifest, files, history, license_call>>

\* main() up to the discovery loops: the import of SearchTerms, and nothing
\* to do without terms and seeds.
Start ==
    /\ pc = "start"
    /\ pc' = IF config.import_error # "" THEN "done"
             ELSE IF config.SEARCH_TERMS = <<>> /\ config.SEED_URLS = <<>>
             THEN "done" ELSE "discover"
    /\ UNCHANGED <<probe, profile, config, term_i, seed_i, seen_urls, queue, url_i, ts,
                   head_resp, get_resp, clock, last_time, last_hit, cache,
                   manifest, files, history, license_call>>

\* One discovery call returned urls, those of twice among them twice.
Found(m, urls, twice) ==
    [m EXCEPT !.h.found = @ \cup urls,
              !.h.found_again = @ \cup twice \cup (urls \cap m.h.found)]

\* One iteration of "for term in SEARCH_TERMS"; an exception out of
\* discover_via_bing ends main() with a traceback.
DiscoverTerm ==
    /\ pc = "discover"
    /\ term_i <= Len(config.SEARCH_TERMS)
    /\ \E answer \in BingAnswers, lat \in Latencies(profile) :
          \E d \in {discover_via_bing(Machine, config.BING_API_KEY, answer, lat)} :
             /\ SetMachine(Found(d.m, Elems(d.urls),
                                 {d.urls[i] : i \in {j \in 1..Len(d.urls) :
                                     \E k \in 1..(j - 1) : d.urls[k] = d.urls[j]}}))
             /\ seen_urls' = seen_urls \cup Elems(d.urls)
             /\ pc' = IF d.exc # "" THEN "crashed" ELSE pc
             /\ term_i' = IF d.exc # "" THEN term_i ELSE term_i + 1
    /\ UNCHANGED <<probe, profile, config, seed_i, queue, url_i, ts, head_resp, get_resp,
                   manifest, files, license_call>>

\* One iteration of "for seed in SEED_URLS"; an exception out of
\* crawl_for_pdfs ends main() with a traceback.
CrawlSeed ==
    /\ pc = "discover"
    /\ term_i > Len(config.SEARCH_TERMS)
    /\ seed_i <= Len(config.SEED_URLS)
    /\ LET seed == config.SEED_URLS[seed_i]
       IN  \E rob \in RobotsEnvs(profile, Machine, seed),
              a \in PageAnswers(profile, seed), lat \in Latencies(profile) :
              \E c \in {crawl_for_pdfs(Machine, seed,
                                       Env(rob.robots, rob.rlat, a.fail, a.resp, lat))} :
                 /\ SetMachine(Found(c.m, c.urls, {}))
                 /\ seen_urls' = seen_urls \cup c.urls
                 /\ pc' = IF c.exc # "" THEN "crashed" ELSE pc
                 /\ seed_i' = IF c.exc # "" THEN seed_i ELSE seed_i + 1
    /\ UNCHANGED <<probe, profile, config, term_i, queue, url_i, ts, head_resp, get_resp,
                   manifest, files, license_call>>

\* A faulty main(): the candidates are kept in a list, and one found twice is
\* processed twice.
Filter_list_of_all ==
    /\ pc = "discover"
    /\ term_i > Len(config.SEARCH_TERMS)
    /\ seed_i > Len(config.SEED_URLS)
    /\ \E kept \in {IF seen_urls = {} THEN {}
                      ELSE DomainFilter(seen_urls, config.ALLOWED_DOMAINS)} :
          /\ seen_urls' = kept
          /\ queue' = Sorted(kept) \o Sorted(kept)
          /\ pc' = IF kept = {} THEN "done" ELSE "head"
    /\ url_i' = 1
    /\ history' = [history EXCEPT !.crawled = <<>>]
    /\ UNCHANGED <<probe, profile, config, term_i, seed_i, ts, head_resp, get_resp, clock,
                   last_time, last_hit, cache, manifest, files, license_call>>

\* main() between discovery and the processing loop: the empty check, the
\* domain filter, and the sort.
Filter ==
    /\ pc = "discover"
    /\ term_i > Len(config.SEARCH_TERMS)
    /\ seed_i > Len(config.SEED_URLS)
    /\ \E kept \in {IF seen_urls = {} THEN {}
                      ELSE DomainFilter(seen_urls, config.ALLOWED_DOMAINS)} :
          /\ seen_urls' = kept
          /\ queue' = Sorted(kept)
          /\ pc' = IF kept = {} THEN "done" ELSE "head"
    /\ url_i' = 1
    /\ history' = [history EXCEPT !.crawled = <<>>]
    /\ UNCHANGED <<probe, profile, config, term_i, seed_i, ts, head_resp, get_resp, clock,
                   last_time, last_hit, cache, manifest, files, license_call>>

\* Where the loop goes after the iteration for queue[url_i] ends.
AfterUrl == IF url_i + 1 > Len(queue) THEN "done" ELSE "head"

\* The processing loop, from the top of an iteration to the second request.
ProcessHead ==
    /\ pc = "head"
    /\ LET url == queue[url_i]
       IN  \E rob \in RobotsEnvs(profile, Machine, url),
              a \in HeadAnswers(profile, url), lat \in Latencies(profile) :
              \E h \in {HeadStage(Machine, manifest, url,
                                  Env(rob.robots, rob.rlat, a.fail, a.resp, lat))} :
                 /\ SetMachine(h.m)
                 /\ manifest' = h.manifest
                 /\ ts' = h.ts
                 /\ head_resp' = h.resp
                 /\ pc' = IF h.next THEN "get" ELSE AfterUrl
                 /\ url_i' = IF h.next THEN url_i ELSE url_i + 1
    /\ get_resp' = None
    /\ license_call' = NoCall
    /\ UNCHANGED <<probe, profile, config, term_i, seed_i, seen_urls, queue, files>>

\* The processing loop, from the second request to the end of the iteration.
ProcessGet ==
    /\ pc = "get"
    /\ LET url == queue[url_i]
       IN  \E rob \in RobotsEnvs(profile, Machine, url),
              a \in GetAnswers(profile, url), lat \in Latencies(profile) :
              \E g \in {GetStage(Machine, manifest, files, url, ts,
                                 Env(rob.robots, rob.rlat, a.fail, a.resp, lat),
                                 a.stream_exc, a.save_how)} :
                 /\ SetMachine(g.m)
                 /\ manifest' = g.manifest
                 /\ files' = g.files
                 /\ get_resp' = g.resp
                 /\ license_call' = g.call
    /\ pc' = AfterUrl
    /\ url_i' = url_i + 1
    /\ UNCHANGED <<probe, profile, config, term_i, seed_i, seen_urls, queue, ts, head_resp>>

Next ==
    \/ Start
    \/ DiscoverTerm
    \/ CrawlSeed
    \/ Filter
    \/ ProcessHead
    \/ ProcessGet

Spec == Init /\ [][Next]_vars

\* ------------------------------------------------------------ the licence check alone

\* is_public_enough on its own, over every combination of its inputs: header
\* values with each forbidding tag and without, texts with each mix of
\* permissive and restrictive phrases, bytes PdfReader cannot read, and
\* domains in and out of the likely-public TLDs.
LicenceHeaders ==
    {<<>>,
     XR_NOAI,
     <<"n", "o", "i", "n", "d", "e", "x", ",", " ", "n", "o", "f", "o", "l", "l", "o", "w">>,
     <<"n", "o", "f", "o", "l", "l", "o", "w">>,
     <<"N", "O", "A", "R", "C", "H", "I", "V", "E">>,
     <<"n", "o", "n", "e">>,
     <<"a", "l", "l">>}

LicenceTexts == SUBSET {"public domain", "cc-by", "all rights reserved", "(c)"}

LicenceBodies ==
    {Body(1, 2000, t, "") : t \in LicenceTexts}
        \cup {Body(8, 2000, {}, "EOF marker not found")}

LicenceNetlocs ==
    {<<"e", "x", "a", "m", "p", "l", "e", ".", "g", "o", "v">>,
     <<"x", ".", "e", "u">>,
     <<"b", ".", "c", "o", "m">>}

NoResult == [exc |-> "", allowed |-> FALSE, reason |-> ""]

InitLicense ==
    /\ pc = "license"
    /\ profile = "content"
    /\ config = [SEARCH_TERMS |-> <<>>, SEED_URLS |-> <<>>,
                 ALLOWED_DOMAINS |-> <<>>, BING_API_KEY |-> <<" ">>,
                 import_error |-> ""]
    /\ term_i = 1
    /\ seed_i = 1
    /\ seen_urls = {}
    /\ queue = <<>>
    /\ url_i = 1
    /\ ts = 0
    /\ head_resp = None
    /\ get_resp = None
    /\ clock = StartTime
    /\ last_time = 0
    /\ last_hit = <<>>
    /\ cache = <<>>
    /\ manifest = NoManifest
    /\ files = <<>>
    /\ history = NoHistory
    /\ probe = <<>>
    /\ \E x \in LicenceHeaders, b \in LicenceBodies, n \in LicenceNetlocs :
          license_call =
              [called |-> FALSE,
               resp |-> Response(200, CT_PDF, x,
                                 <<"h", "t", "t", "p", ":", "/", "/">> \o n
                                     \o <<"/", "x", ".", "p", "d", "f">>,
                                 b),
               pdf_bytes |-> b, netloc |-> n, result |-> NoResult]

\* One call of is_public_enough.
Classify ==
    /\ pc = "license"
    /\ ~ license_call.called
    /\ license_call' =
          [license_call EXCEPT
             !.called = TRUE,
             !.result = is_public_enough(license_call.resp.url, license_call.resp,
                                         license_call.pdf_bytes, license_call.netloc)]
    /\ UNCHANGED <<pc, probe, profile, config, term_i, seed_i, seen_urls, queue, url_i, ts,
                   head_resp, get_resp, clock, last_time, last_hit, cache,
                   manifest, files, history>>

SpecLicense == InitLicense /\ [][Classify]_vars

\* ------------------------------------------------------------ saving alone

\* The save of main() on its own, over runs that share the output directory
\* and the manifest: the same URL with the same bytes, the same bytes under
\* another URL (with the same file name and with another), other bytes.
U_C == <<"h", "t", "t", "p", ":", "/", "/", "b", ".", "c", "o", "m", "/", "x", ".", "p", "d", "f">>

SaveUrls == {U_A, U_B, U_C}

SaveContents == {PlainPdf, Body(1, 2000, {}, ""), Body(3, 2000, {"all rights reserved"}, "")}

InitSave ==
    /\ pc = "save"
    /\ profile = "content"
    /\ config = [SEARCH_TERMS |-> <<>>, SEED_URLS |-> <<>>,
                 ALLOWED_DOMAINS |-> <<>>, BING_API_KEY |-> <<" ">>,
                 import_error |-> ""]
    /\ term_i = 1
    /\ seed_i = 1
    /\ seen_urls = {}
    /\ queue = <<>>
    /\ url_i = 1
    /\ ts = 0
    /\ head_resp = None
    /\ get_resp = None
    /\ clock = StartTime
    /\ last_time = 0
    /\ last_hit = <<>>
    /\ cache = <<>>
    /\ manifest = NoManifest
    /\ files = <<>>
    /\ history = NoHistory
    /\ license_call = NoCall
    /\ probe = <<>>

\* main(), the save of accepted content and its record, or the except clause
\* if save_pdf raises.
SaveAccepted ==
    /\ pc = "save"
    /\ Len(probe) < MaxCalls
    /\ \E url \in SaveUrls, content \in SaveContents, how \in {"ok", "write_fails"} :
          \E sv \in {save_pdf(files, url, content, how)} :
             /\ files' = sv.files
             /\ manifest' =
                   IF sv.exc # ""
                   THEN except_clause(manifest, clock, url, sv.exc)
                   ELSE record_manifest(manifest,
                            Row(clock, url, "saved",
                                <<"Accepted: permissive license detected in text">>,
                                Str(200), CT_PDF, sv.path, sha256_of_bytes(content)))
             /\ probe' = Append(probe,
                                [url |-> url, content |-> content, exc |-> sv.exc,
                                 path |-> sv.path, after |-> sv.files])
    /\ UNCHANGED <<pc, profile, config, term_i, seed_i, seen_urls, queue, url_i, ts,
                   head_resp, get_resp, clock, last_time, last_hit, cache,
                   history, license_call>>

SpecSave == InitSave /\ [][SaveAccepted]_vars

\* ------------------------------------------------------------ the PDF checks alone

\* A faulty is_pdf: the token PDF is looked for in the whole content.
is_pdf_token_anywhere(content_type, url, content) ==
    \/ Contains(content_type, CT_PDF)
    \/ EndsWith(Lower(url), <<".", "p", "d", "f">>)
    \/ StartsWith(content, PDF_MAGIC)
    \/ Contains(content, <<"P", "D", "F">>)

\* A faulty is_pdf: the content type and the content both have to say PDF.
is_pdf_all_signals(content_type, url, content) ==
    /\ Contains(content_type, CT_PDF)
    /\ \/ StartsWith(content, PDF_MAGIC)
       \/ Contains(SubSeq(content, 1, Min(100, Len(content))), <<"P", "D", "F">>)

\* _download_pdf of core.py, the is_pdf test: content_type is the lowered
\* header value, content the bytes read.
is_pdf(content_type, url, content) ==
    \/ Contains(content_type, CT_PDF)
    \/ EndsWith(Lower(url), <<".", "p", "d", "f">>)
    \/ StartsWith(content, PDF_MAGIC)
    \/ Contains(SubSeq(content, 1, Min(100, Len(content))), <<"P", "D", "F">>)

\* URLs with and without the suffix, one of them with a query string.
U_Q ==
    <<"h", "t", "t", "p", ":", "/", "/", "a", ".", "g", "o", "v", "/", "x", ".", "p", "d", "f",
      "?", "d", "l", "=", "1">>

CheckUrls == {U_A, U_B, U_H, U_Q}

\* Content-Type values: absent, HTML, PDF (plain and with a parameter), and
\* one that says pdf without saying application/pdf.
CheckContentTypes ==
    {<<>>, CT_HTML, CT_PDF,
     <<"A", "p", "p", "l", "i", "c", "a", "t", "i", "o", "n", "/", "P", "D", "F", ";",
       " ", "q", "=", "1">>,
     <<"a", "p", "p", "l", "i", "c", "a", "t", "i", "o", "n", "/", "x", "-", "p", "d", "f">>}

\* Contents: a PDF, nothing, HTML, HTML that says PDF early, blanks with PDF
\* past the first hundred bytes, the signature in lower case, and the
\* signature behind a blank.
CheckContents ==
    {PDF_MAGIC \o <<"-", "1", ".", "4">>,
     <<>>,
     HTML_MAGIC \o <<"l", ">">>,
     HTML_MAGIC \o <<"l", ">", "P", "D", "F", " ", "g", "u", "i", "d", "e">>,
     [i \in 1..100 |-> " "] \o <<"P", "D", "F">>,
     <<"%", "p", "d", "f">>,
     <<" ">> \o PDF_MAGIC}

InitPdfCheck ==
    /\ pc = "is_pdf"
    /\ profile = "content"
    /\ config = [SEARCH_TERMS |-> <<>>, SEED_URLS |-> <<>>,
                 ALLOWED_DOMAINS |-> <<>>, BING_API_KEY |-> <<" ">>,
                 import_error |-> ""]
    /\ term_i = 1
    /\ seed_i = 1
    /\ seen_urls = {}
    /\ queue = <<>>
    /\ url_i = 1
    /\ ts = 0
    /\ head_resp = None
    /\ get_resp = None
    /\ clock = StartTime
    /\ last_time = 0
    /\ last_hit = <<>>
    /\ cache = <<>>
    /\ manifest = NoManifest
    /\ files = <<>>
    /\ history = NoHistory
    /\ license_call = NoCall
    /\ \E u \in CheckUrls, c \in CheckContentTypes, b \in CheckContents :
          probe = <<[called |-> FALSE, url |-> u, content_type |-> c, content |-> b,
                     is_pdf |-> FALSE, discovered |-> FALSE, not_pdf |-> FALSE,
                     not_pdf_after_get |-> FALSE]>>

\* One response put to the three checks: the is_pdf test of _download_pdf,
\* and the two not_pdf conditions of main(); discovered tells whether
\* discovery hands the URL to main()'s loop at all.
CheckPdf ==
    /\ pc = "is_pdf"
    /\ ~ probe[1].called
    /\ probe' =
          <<[probe[1] EXCEPT
               !.called = TRUE,
               !.is_pdf = is_pdf(Lower(probe[1].content_type), probe[1].url,
                                 probe[1].content),
               !.discovered = IsPdfName(probe[1].url),
               !.not_pdf = not_pdf(Lower(probe[1].content_type), probe[1].url),
               !.not_pdf_after_get =
                   not_pdf_after_get(probe[1].content_type, probe[1].url)]>>
    /\ UNCHANGED <<pc, profile, config, term_i, seed_i, seen_urls, queue, url_i, ts,
                   head_resp, get_resp, clock, last_time, last_hit, cache,
                   manifest, files, history, license_call>>

SpecPdfCheck == InitPdfCheck /\ [][CheckPdf]_vars

\* ------------------------------------------------------------ the limiters alone

\* The keys the limiters are asked for: global_rl has one, domain_rl one per
\* netloc.
LimiterNetlocs == {<<"a", ".", "g", "o", "v">>, <<"b", ".", "c", "o", "m">>}

InitLimiter ==
    /\ pc = "limit"
    /\ profile = "timing"
    /\ config = [SEARCH_TERMS |-> <<>>, SEED_URLS |-> <<>>,
                 ALLOWED_DOMAINS |-> <<>>, BING_API_KEY |-> <<" ">>,
                 import_error |-> ""]
    /\ term_i = 1
    /\ seed_i = 1
    /\ seen_urls = {}
    /\ queue = <<>>
    /\ url_i = 1
    /\ ts = 0
    /\ head_resp = None
    /\ get_resp = None
    /\ clock = StartTime
    /\ last_time = 0
    /\ last_hit = <<>>
    /\ cache = <<>>
    /\ manifest = NoManifest
    /\ files = <<>>
    /\ history = NoHistory
    /\ license_call = NoCall
    /\ probe = <<>>

\* The record of a call of wait(): the key, whether the key was acquired
\* before and the time then recorded for it, the time of the call, the time
\* of return, and the time recorded at return.
WaitCall(key, again, before_last, called_at, m, after_last) ==
    [key |-> key, again |-> again, before_last |-> before_last,
     called_at |-> called_at, returned_at |-> m.clock, after_last |-> after_last]

\* global_rl.wait(), some seconds after the call before.
WaitGlobal ==
    /\ pc = "limit"
    /\ Len(probe) < MaxCalls
    /\ \E d \in 0..MaxElapse :
          \E m \in {RateLimiter_wait([Machine EXCEPT !.clock = clock + d])} :
             /\ SetMachine(m)
             /\ probe' = Append(probe,
                   WaitCall(<<"global_rl">>,
                            \E i \in 1..Len(probe) : probe[i].key = <<"global_rl">>,
                            last_time, clock + d, m, m.last_time))
    /\ UNCHANGED <<pc, profile, config, term_i, seed_i, seen_urls, queue, url_i, ts,
                   head_resp, get_resp, manifest, files, license_call>>

\* domain_rl.wait(netloc), some seconds after the call before.
WaitDomain ==
    /\ pc = "limit"
    /\ Len(probe) < MaxCalls
    /\ \E d \in 0..MaxElapse, netloc \in LimiterNetlocs :
          \E m \in {PerDomainLimiter_wait([Machine EXCEPT !.clock = clock + d],
                                          netloc)} :
             /\ SetMachine(m)
             /\ probe' = Append(probe,
                   WaitCall(<<"domain_rl">> \o netloc,
                            netloc \in DOMAIN last_hit,
                            IF netloc \in DOMAIN last_hit THEN last_hit[netloc] ELSE 0,
                            clock + d, m, m.last_hit[netloc]))
    /\ UNCHANGED <<pc, profile, config, term_i, seed_i, seen_urls, queue, url_i, ts,
                   head_resp, get_resp, manifest, files, license_call>>

NextLimiter == WaitGlobal \/ WaitDomain

SpecLimiter == InitLimiter /\ [][NextLimiter]_vars

\* ------------------------------------------------------------ the domain filter

\* A URL whose host ends in a.gov and is no subdomain of it.
U_N ==
    <<"h", "t", "t", "p", ":", "/", "/", "n", "o", "t", "a", ".", "g", "o", "v", "/",
      "x", ".", "p", "d", "f">>

FilterUrls == {U_A, U_B, U_N}

\* main() from the end of discovery on: discovery has returned some of
\* FilterUrls, and ALLOWED_DOMAINS lists a domain or a suffix.
InitFilter ==
    /\ pc = "discover"
    /\ profile \in Profiles
    /\ \E allowed \in {<<"A", ".", "g", "o", "v">>, <<".", "g", "o", "v">>} :
          config = [SEARCH_TERMS |-> <<>>, SEED_URLS |-> <<SEED>>,
                    ALLOWED_DOMAINS |-> <<allowed>>, BING_API_KEY |-> <<>>,
                    import_error |-> ""]
    /\ term_i = 1
    /\ seed_i = 2
    /\ seen_urls \in SUBSET FilterUrls
    /\ queue = <<>>
    /\ url_i = 1
    /\ ts = 0
    /\ head_resp = None
    /\ get_resp = None
    /\ clock = StartTime
    /\ last_time = 0
    /\ last_hit = <<>>
    /\ cache = <<>>
    /\ manifest = NoManifest
    /\ files = <<>>
    /\ history = [NoHistory EXCEPT !.found = seen_urls]
    /\ license_call = NoCall
    /\ probe = <<>>

NextFilter == Filter \/ ProcessHead \/ ProcessGet

SpecFilter == InitFilter /\ [][NextFilter]_vars

\* ------------------------------------------------------------ core.py

\* The most minutes the clock of the file names moves on during a session.
MaxMinutes == 1

\* search_and_download_pdfs(search_term, category, max_results=10)
max_results == 10

base_path == <<"DataCenter_PDF_Library">>

\* The calls of search_and_download_pdfs a session makes: a search term and
\* a category each.
Searches ==
    <<[search_term |-> <<"u", "p", "s">>, category |-> <<"p", "o", "w", "e", "r">>]>>

\* What an earlier call left behind, for another category: a file and its
\* entry in downloaded_files.
EarlierEntry ==
    [filename |-> <<"z", "_", "1", "1", "0", "3", "_", "1", "1", "5", "9", ".", "p", "d", "f">>,
     url |-> U_C, category |-> <<"c", "o", "o", "l">>,
     search_term |-> <<"c", "r", "a", "c">>, size |-> 4096]

EarlierPath ==
    base_path \o <<"/">> \o EarlierEntry.category \o <<"/">> \o EarlierEntry.filename

\* The engines in the order search_and_download_pdfs calls them, with the
\* queries each sends (one per site for the last two).
Engines ==
    <<[name |-> "duckduckgo", queries |-> 1, share |-> 3],
      [name |-> "bing", queries |-> 1, share |-> 3],
      [name |-> "yandex", queries |-> 1, share |-> 4],
      [name |-> "archive_org", queries |-> 1, share |-> 4],
      [name |-> "academic_sites", queries |-> 4, share |-> 4],
      [name |-> "doc_aggregators", queries |-> 3, share |-> 4]>>

\* What a results page request ends in: an exception (a timeout), a status
\* other than 200, or a page with links.
SearchAnswer(raised, status_code, hrefs) ==
    [raised |-> raised, status_code |-> status_code, hrefs |-> hrefs]

SearchAnswers ==
    {SearchAnswer(TRUE, 0, <<>>), SearchAnswer(FALSE, 503, <<U_A>>)}
        \cup {SearchAnswer(FALSE, 200, h) : h \in {<<U_A>>, <<U_H, U_Q>>}}

\* The answers a site of the last two engines gives.
SiteAnswers ==
    {SearchAnswer(TRUE, 0, <<>>), SearchAnswer(FALSE, 503, <<>>),
     SearchAnswer(FALSE, 200, <<U_A>>)}

\* list[:n]
Take(list, n) == SubSeq(list, 1, Min(Max(n, 0), Len(list)))

\* _is_pdf_url(url): ".pdf" anywhere in the lowered URL (the other patterns
\* all contain it).
_is_pdf_url(url) ==
    /\ url # <<>>
    /\ Contains(Lower(url), <<".", "p", "d", "f">>)

IsHttp(href) == StartsWith(href, <<"h", "t", "t", "p">>)

\* The links a results page yields; nothing after an exception or a status
\* other than 200.
PageLinks(answer) ==
    IF answer.raised \/ answer.status_code # 200 THEN <<>> ELSE answer.hrefs

\* _search_duckduckgo, from its one response on.
_search_duckduckgo(answer, limit) ==
    LET Keep(href) == _is_pdf_url(href) /\ IsHttp(href)
    IN  Take(SelectSeq(Take(PageLinks(answer), limit * 2), Keep), limit)

\* _search_bing, from its one response on.
_search_bing(answer, limit) ==
    LET Keep(href) ==
            /\ _is_pdf_url(href)
            /\ ~ Contains(href, <<"b", "i", "n", "g", ".", "c", "o", "m">>)
    IN  Take(SelectSeq(PageLinks(answer), Keep), limit)

\* _search_yandex, from its one response on.
_search_yandex(answer, limit) ==
    LET Keep(href) ==
            /\ _is_pdf_url(href)
            /\ ~ Contains(href, <<"y", "a", "n", "d", "e", "x", ".">>)
    IN  Take(SelectSeq(PageLinks(answer), Keep), limit)

\* _search_archive_org, from its one response on.
_search_archive_org(answer, limit) ==
    LET full_url(href) ==
            IF StartsWith(href, <<"/">>)
            THEN <<"h", "t", "t", "p", "s", ":", "/", "/", "a", "r", "c", "h", "i", "v",
                   "e", ".", "o", "r", "g">> \o href
            ELSE href
        download_links == SelectSeq(PageLinks(answer), IsPdfName)
        picked == Take(download_links, limit)
    IN  Take([i \in 1..Len(picked) |-> full_url(picked[i])], limit)

\* _search_specific_site, from its one response on.
_search_specific_site(answer, limit) ==
    LET Keep(href) == _is_pdf_url(href) /\ IsHttp(href)
    IN  Take(SelectSeq(Take(PageLinks(answer), limit), Keep), limit)

\* The lists of a list of lists, one after the other.
RECURSIVE Concat(_)
Concat(lists) ==
    IF lists = <<>> THEN <<>> ELSE Head(lists) \o Concat(Tail(lists))

\* _search_academic_sites, from the responses of its four sites on.
_search_academic_sites(answers, limit) ==
    Take(Concat([i \in 1..Len(answers) |->
                    _search_specific_site(answers[i], limit \div Len(answers))]),
         limit)

\* _search_doc_aggregators, from the responses of its three sites on.
_search_doc_aggregators(answers, limit) ==
    LET site_url == <<"h", "t", "t", "p", "s", ":", "/", "/", "m", ".", "c", "o", "m">>
        Site(answer) ==
            LET pdf_links == Take(SelectSeq(PageLinks(answer), IsPdfName),
                                  limit \div Len(answers))
            IN  IF \E i \in 1..Len(pdf_links) : InvalidIPv6(pdf_links[i])
                THEN <<>>
                ELSE [i \in 1..Len(pdf_links) |-> urljoin(site_url, pdf_links[i])]
    IN  Take(Concat([i \in 1..Len(answers) |-> Site(answers[i])]), limit)

\* The call of one engine by search_and_download_pdfs: the URLs it returns.
SearchEngine(engine, answers) ==
    LET limit == max_results \div engine.share
    IN  CASE engine.name = "duckduckgo" -> _search_duckduckgo(answers[1], limit)
          [] engine.name = "bing" -> _search_bing(answers[1], limit)
          [] engine.name = "yandex" -> _search_yandex(answers[1], limit)
          [] engine.name = "archive_org" -> _search_archive_org(answers[1], limit)
          [] engine.name = "academic_sites" -> _search_academic_sites(answers, limit)
          [] OTHER -> _search_doc_aggregators(answers, limit)

\* What the request of _download_pdf ends in: a RequestException (transport,
\* or raise_for_status on a 4xx or 5xx status), or a response with a content
\* type and a body.  A body is its first bytes and its length.
CoreBody(bytes, size) == [bytes |-> bytes, size |-> size]

DownloadAnswers ==
    {[raised |-> TRUE, content_type |-> <<>>, content |-> CoreBody(<<>>, 0)]}
        \cup {[raised |-> FALSE, content_type |-> c, content |-> b] :
                <<c, b>> \in
                    {<<CT_PDF, CoreBody(PDF_MAGIC \o <<"-", "1", ".", "4">>, 1024)>>,
                     <<CT_PDF, CoreBody(PDF_MAGIC \o <<"-", "1", ".", "4">>, 1023)>>,
                     <<CT_HTML, CoreBody(HTML_MAGIC \o <<"l", ">">>, 2000)>>}}

\* datetime.now().strftime("%m%d_%H%M") at the given minute.
Timestamp(minute) == <<"1", "1", "0", "3", "_", "1", "2", "0">> \o Str(minute)

\* s up to the first occurrence of c
Before(s, c) ==
    IF \A i \in 1..Len(s) : s[i] # c THEN s
    ELSE SubSeq(s, 1, (CHOOSE i \in 1..Len(s) :
                          s[i] = c /\ \A j \in 1..(i - 1) : s[j] # c) - 1)

\* Where the last "." of name is, 0 if it has none.
LastDot(name) ==
    IF \A i \in 1..Len(name) : name[i] # "." THEN 0
    ELSE CHOOSE i \in 1..Len(name) :
            name[i] = "." /\ \A j \in (i + 1)..Len(name) : name[j] # "."

\* _generate_filename, the time stamp put before the extension.
WithTimestamp(name, dot, minute) ==
    IF dot = 0
    THEN name \o <<"_">> \o Timestamp(minute) \o <<".", "p", "d", "f">>
    ELSE SubSeq(name, 1, dot - 1) \o <<"_">> \o Timestamp(minute)
             \o SubSeq(name, dot, Len(name))

\* _generate_filename, the name made safe for the file system and cut to
\* a hundred characters.
SafeName(name) ==
    Take([i \in 1..Len(name) |->
             IF name[i] \in {"<", ">", ":", "\"", "/", "\\", "|", "?", "*"}
             THEN "_" ELSE name[i]],
         100)

\* _generate_filename, the name taken from the URL's path or, if that has no
\* name with a ".", from the search term.
CleanName(original_name, search_term) ==
    IF original_name # <<>> /\ LastDot(original_name) # 0
    THEN IF EndsWith(Lower(original_name), <<".", "p", "d", "f">>)
         THEN original_name ELSE original_name \o <<".", "p", "d", "f">>
    ELSE [i \in 1..Len(search_term) |->
             IF search_term[i] = " " THEN "_" ELSE search_term[i]]
             \o <<".", "p", "d", "f">>

\* _generate_filename(url, search_term) at the given minute.
_generate_filename(url, search_term, minute) ==
    The({WithTimestamp(name, LastDot(name), minute) :
            name \in {SafeName(CleanName(
                         PathName(Before(Before(ParseUrl(url).path, "?"), "#")),
                         search_term))}})

\* What a file holds when the write that was filling it failed.
Truncated == CoreBody(<<>>, 0)

\* _download_pdf, from the file name on: the check for the file, the write
\* and the entry.
SaveDownload(disk, downloaded_files, url, category, search_term, size, content, how, filename, filepath) ==
    IF filepath \in DOMAIN disk
    THEN [value |-> TRUE, disk |-> disk, downloaded_files |-> downloaded_files,
          written |-> <<>>, filepath |-> filepath]
    ELSE IF how = "write_fails"
    THEN [value |-> FALSE,
          disk |-> [p \in DOMAIN disk \cup {filepath} |->
                       IF p \in DOMAIN disk THEN disk[p] ELSE Truncated],
          downloaded_files |-> downloaded_files,
          written |-> filepath, filepath |-> filepath]
    ELSE [value |-> TRUE,
          disk |-> [p \in DOMAIN disk \cup {filepath} |->
                       IF p \in DOMAIN disk THEN disk[p] ELSE content],
          downloaded_files |->
              Append(downloaded_files,
                     [filename |-> filename, url |-> url, category |-> category,
                      search_term |-> search_term, size |-> size]),
          written |-> filepath, filepath |-> filepath]

\* _download_pdf(url, category_path, search_term) at the given minute, on the
\* files of the library (disk) and downloaded_files.  how is what the file
\* system does at write().  Returns the files, downloaded_files, the return
\* value, the path written (<<>> if none) and the path looked for (<<>> if
\* the call ended before).
_download_pdf(disk, downloaded_files, url, category, search_term, answer, how, minute) ==
    IF \/ answer.raised
       \/ ~ is_pdf(Lower(answer.content_type), url, answer.content.bytes)
       \/ answer.content.size < 1024
    THEN [value |-> FALSE, disk |-> disk, downloaded_files |-> downloaded_files,
          written |-> <<>>, filepath |-> <<>>]
    ELSE The({SaveDownload(disk, downloaded_files, url, category, search_term,
                           answer.content.size, answer.content, how, filename,
                           base_path \o <<"/">> \o category \o <<"/">> \o filename) :
                 filename \in {_generate_filename(url, search_term, minute)}})

\* generate_summary_report(): total_files and the count of each category.
RECURSIVE CountByCategory(_, _)
CountByCategory(categories, left) ==
    IF left = <<>> THEN categories
    ELSE CountByCategory(
             [c \in DOMAIN categories \cup {Head(left).category} |->
                 (IF c \in DOMAIN categories THEN categories[c] ELSE 0)
                     + (IF c = Head(left).category THEN 1 ELSE 0)],
             Tail(left))

generate_summary_report(downloaded_files) ==
    [total_files |-> Len(downloaded_files),
     categories |-> CountByCategory(<<>>, downloaded_files)]

\* The session of a PDFDownloader: which call of search_and_download_pdfs it
\* is in and which engine comes next, the requests of the engine called
\* last, pdf_urls, the URLs still to download, the minute of the file names,
\* the files of the library and downloaded_files, the paths this session
\* wrote, the last call of _download_pdf, and the report.
NoDownload ==
    [called |-> FALSE, url |-> <<>>, category |-> <<>>, raised |-> FALSE,
     is_pdf |-> FALSE, size |-> 0, present |-> FALSE, value |-> FALSE,
     written |-> <<>>, entries_before |-> 0, disk_before |-> <<>>]

NoReport == [total_files |-> -1, categories |-> <<>>]

InitCore ==
    /\ pc = "search"
    /\ profile = "content"
    /\ config = [SEARCH_TERMS |-> <<>>, SEED_URLS |-> <<>>,
                 ALLOWED_DOMAINS |-> <<>>, BING_API_KEY |-> <<" ">>,
                 import_error |-> ""]
    /\ term_i = 1
    /\ seed_i = 1
    /\ seen_urls = {}
    /\ queue = <<>>
    /\ url_i = 1
    /\ ts = 0
    /\ head_resp = None
    /\ get_resp = None
    /\ clock = StartTime
    /\ last_time = 0
    /\ last_hit = <<>>
    /\ cache = <<>>
    /\ manifest = NoManifest
    /\ files = <<>>
    /\ history = NoHistory
    /\ license_call = NoCall
    /\ \E earlier \in BOOLEAN :
          probe = [search |-> 1, engine |-> 1, asked |-> <<>>, pdf_urls |-> <<>>,
                   unique_urls |-> {}, minute |-> 0,
                   disk |-> IF earlier
                            THEN [p \in {EarlierPath} |-> CoreBody(PDF_MAGIC, 4096)]
                            ELSE <<>>,
                   downloaded_files |-> IF earlier THEN <<EarlierEntry>> ELSE <<>>,
                   wrote |-> IF earlier THEN {EarlierPath} ELSE {},
                   last |-> NoDownload, report |-> NoReport]

CoreUnchanged ==
    UNCHANGED <<profile, config, term_i, seed_i, seen_urls, queue, url_i, ts,
                head_resp, get_resp, clock, last_time, last_hit, cache, manifest,
                files, history, license_call>>

\* Where the session goes when a call of search_and_download_pdfs returns.
AfterSearch == IF probe.search < Len(Searches) THEN "search" ELSE "report"

\* search_and_download_pdfs, one of its six calls of an engine; after the
\* sixth, the duplicates are dropped and the first max_results URLs kept, in
\* the order the set gives them.
CallEngine ==
    /\ pc = "search"
    /\ LET engine == Engines[probe.engine]
           last == probe.engine = Len(Engines)
       IN  \E answers \in [1..engine.queries ->
                              IF engine.queries = 1 THEN SearchAnswers
                              ELSE SiteAnswers] :
              \E urls \in {probe.pdf_urls \o SearchEngine(engine, answers)} :
                 \E kept \in {S \in SUBSET Elems(urls) :
                                 Cardinality(S) = Min(max_results,
                                                      Cardinality(Elems(urls)))} :
                    /\ probe' = [probe EXCEPT
                          !.engine = IF last THEN 1 ELSE @ + 1,
                          !.asked = [i \in 1..engine.queries |->
                                        [engine |-> engine.name, query |-> i,
                                         raised |-> answers[i].raised,
                                         status_code |-> answers[i].status_code]],
                          !.pdf_urls = IF last THEN <<>> ELSE urls,
                          !.unique_urls = IF last THEN kept ELSE @,
                          !.search = IF last /\ kept = {} THEN @ + 1 ELSE @]
                    /\ pc' = IF ~ last THEN "search"
                             ELSE IF kept # {} THEN "download"
                             ELSE AfterSearch
    /\ CoreUnchanged

\* search_and_download_pdfs, one iteration of the download loop: the call of
\* _download_pdf for the next URL, and the sleep after it.
DownloadNext ==
    /\ pc = "download"
    /\ \E url \in probe.unique_urls, answer \in DownloadAnswers,
          how \in {"ok", "write_fails"},
          minute \in probe.minute..Min(probe.minute + 1, MaxMinutes) :
          LET search == Searches[probe.search]
              left == probe.unique_urls \ {url}
          IN  \E d \in {_download_pdf(probe.disk, probe.downloaded_files, url,
                                      search.category, search.search_term,
                                      answer, how, minute)} :
                 /\ probe' = [probe EXCEPT
                       !.unique_urls = left,
                       !.minute = minute,
                       !.disk = d.disk,
                       !.downloaded_files = d.downloaded_files,
                       !.wrote = IF d.written = <<>> THEN @ ELSE @ \cup {d.written},
                       !.last = [called |-> TRUE, url |-> url,
                                 category |-> search.category,
                                 raised |-> answer.raised,
                                 is_pdf |-> is_pdf(Lower(answer.content_type), url,
                                                   answer.content.bytes),
                                 size |-> answer.content.size,
                                 present |-> d.filepath \in DOMAIN probe.disk,
                                 value |-> d.value, written |-> d.written,
                                 entries_before |-> Len(probe.downloaded_files),
                                 disk_before |-> probe.disk],
                       !.search = IF left = {} THEN @ + 1 ELSE @]
                 /\ pc' = IF left # {} THEN "download" ELSE AfterSearch
    /\ CoreUnchanged

\* generate_summary_report() at the end of the session.
Report ==
    /\ pc = "report"
    /\ probe' = [probe EXCEPT
          !.report = generate_summary_report(probe.downloaded_files)]
    /\ pc' = "reported"
    /\ CoreUnchanged

NextCore == CallEngine \/ DownloadNext \/ Report

SpecCore == InitCore /\ [][NextCore]_vars

\* main() is one sequential program and each of its steps ends (the requests
\* carry a timeout): a step that can be taken is taken.
FairSpec == Spec /\ WF_vars(Next)

\* ------------------------------------------------------------ properties

\* The manifest lines this run appended that are records of url.
RecordsOf(url) ==
    {i \in (history.old_lines + 1)..Len(manifest.lines) :
        manifest.lines[i].source_url = url}

\* The statuses of the records this run appended.
RunStatuses ==
    {manifest.lines[i].status[1] :
        i \in {j \in (history.old_lines + 1)..Len(manifest.lines) :
                 manifest.lines[j] # FIELDNAMES}}

\* C1: every URL of the processed set has exactly one manifest record once
\* its iteration has ended, whatever branch ended it, and none before; the
\* processed set holds each URL once.
C1_OneRecordPerUrl ==
    /\ \A i \in 1..Len(queue) :
          Cardinality(RecordsOf(queue[i])) = IF i < url_i THEN 1 ELSE 0
    /\ \A i, j \in 1..Len(queue) : queue[i] = queue[j] => i = j
    /\ pc = "done" => url_i = Len(queue) + 1

\* C1 witness: a run over two URLs has ended, one saved and one in error.
C1_Witness ==
    /\ pc = "done"
    /\ Len(queue) = 2
    /\ {"saved", "error"} \subseteq RunStatuses
    /\ \A i \in 1..2 : Cardinality(RecordsOf(queue[i])) = 1

\* The origin whose /robots.txt governs url.
OriginOf(url) == urlparse(url).scheme \o <<":", "/", "/">> \o urlparse(url).netloc

\* The URLs whose iteration of the processing loop has ended.
Processed == {queue[i] : i \in 1..(url_i - 1)}

\* The record this run appended for url, if it appended exactly one.
RecordOf(url) == manifest.lines[CHOOSE i \in RecordsOf(url) : TRUE]

\* C2: once the retrieval of an origin's /robots.txt has failed, the gate's
\* answer for every URL of that origin is false for the rest of the run.
C2_FailClosedPersists ==
    \A url \in DOMAIN history.gate :
        OriginOf(url) \in history.robots_failed => history.gate[url] = FALSE

\* C3: two consecutive requests of safe_get to the same domain are at least
\* PER_DOMAIN_DELAY apart.
C3_PerDomainGap ==
    \A gap \in history.domain_gaps : gap >= PER_DOMAIN_DELAY

\* C4: two consecutive requests of safe_get or discover_via_bing, whatever
\* their domains, are at least SECONDS_PER_REQUEST apart (the /robots.txt
\* retrievals of the gate are not among them).
C4_GlobalGap ==
    \A gap \in history.global_gaps : gap >= SECONDS_PER_REQUEST

\* C4 witness: a search query and a request of safe_get have both gone out,
\* one after the other.
C4_Witness ==
    /\ history.global_gaps # {}
    /\ \E r, q \in history.requests :
          r.by = "discover_via_bing" /\ q.by = "safe_get"

\* C5: every outbound request, the search query and the /robots.txt
\* retrievals included, goes out after an acquisition of the per-domain
\* limiter for its domain and an acquisition of the global limiter.
C5_BothLimitersBeforeEveryRequest ==
    \A r \in history.requests :
        /\ <<"global_rl">> \in r.held
        /\ (<<"domain_rl">> \o domain_of(r.url)) \in r.held

\* What C6 says of a URL the gate disallowed, with the reason the record is
\* to carry: no request went to the URL, safe_get returned nothing, and the
\* processing loop recorded the URL as skipped with that reason.
DisallowedHandled(reason) ==
    /\ \A url \in DOMAIN history.gate :
          history.gate[url] = FALSE => url \notin DOMAIN history.sent
    /\ \A url \in Processed :
          history.gate[url] = FALSE =>
             /\ Cardinality(RecordsOf(url)) = 1
             /\ RecordOf(url).status = <<"skipped">>
             /\ RecordOf(url).reason = reason
             /\ RecordOf(url).http_status = <<>>
             /\ RecordOf(url).saved_path = <<>>
    /\ (pc \in {"head", "done"} /\ url_i > 1 /\ history.gate[queue[url_i - 1]] = FALSE)
          => head_resp = None

\* C6: a URL the robots gate disallows gets no request, safe_get returns
\* nothing, and the processing loop records it as skipped with reason
\* robots_disallow.
C6_DisallowedRecorded == DisallowedHandled(<<"robots_disallow">>)

\* What the code records for a disallowed URL: the reason it also records
\* for a request that failed.
DisallowedRecordedAsFailed == DisallowedHandled(<<"robots_disallow_or_request_failed">>)

\* The rules of a retrieved /robots.txt disallowed a URL of the processed set,
\* and its iteration has ended.
DisallowedByRules ==
    \E url \in Processed :
        /\ history.gate[url] = FALSE
        /\ OriginOf(url) \in DOMAIN cache
        /\ RecordOf(url).reason = <<"robots_disallow_or_request_failed">>

\* The response carries a forbidding X-Robots-Tag value.
CarriesForbiddingTag(resp) ==
    \E tag \in {<<"n", "o", "i", "n", "d", "e", "x">>,
                <<"n", "o", "a", "r", "c", "h", "i", "v", "e">>,
                <<"n", "o", "a", "i">>,
                <<"n", "o", "f", "o", "l", "l", "o", "w">>,
                <<"n", "o", "n", "e">>} :
        Contains(Lower(resp.headers.xrobots), tag)

\* The first-match-wins table over the four signals.
FirstMatch(forbidding, permissive, public, restrictive) ==
    IF forbidding
    THEN [allowed |-> FALSE, reason |-> "Rejected: X-Robots-Tag forbids indexing/AI"]
    ELSE IF permissive
    THEN [allowed |-> TRUE, reason |-> "Accepted: permissive license detected in text"]
    ELSE IF public /\ restrictive
    THEN [allowed |-> FALSE,
          reason |-> "Rejected: restrictive language on likely-public domain"]
    ELSE IF public
    THEN [allowed |-> TRUE,
          reason |-> "Accepted: likely public TLD and no restrictive language found"]
    ELSE IF restrictive
    THEN [allowed |-> FALSE, reason |-> "Rejected: restrictive licensing language found"]
    ELSE [allowed |-> FALSE,
          reason |-> "Rejected: no permissive license signal (conservative default)"]

\* The signals of the last call of is_public_enough.
CallForbidding == CarriesForbiddingTag(license_call.resp)

CallPermissive == license_call.pdf_bytes.text \cap PERMISSIVE_LICENSE_PATTERNS # {}

CallRestrictive == license_call.pdf_bytes.text \cap RESTRICTIVE_PATTERNS # {}

CallPublic ==
    \E tld \in {<<".", "g", "o", "v">>, <<".", "m", "i", "l">>, <<".", "e", "u">>,
                <<".", "i", "n", "t">>} :
        EndsWith(license_call.netloc, tld)

\* C7: whenever is_public_enough returns, its result is the one the
\* first-match-wins table gives for the four signals; a non-public domain is
\* accepted only with permissive text, and example.gov with text neither
\* restrictive nor permissive and no forbidding header is accepted.
C7_FirstMatchTable ==
    (license_call.called /\ license_call.result.exc = "") =>
        /\ [allowed |-> license_call.result.allowed,
            reason |-> license_call.result.reason]
              = FirstMatch(CallForbidding, CallPermissive, CallPublic, CallRestrictive)
        /\ (~ CallPublic /\ license_call.result.allowed) => CallPermissive
        /\ (/\ license_call.netloc = <<"e", "x", "a", "m", "p", "l", "e", ".", "g", "o", "v">>
            /\ ~ CallForbidding /\ ~ CallPermissive /\ ~ CallRestrictive)
              => license_call.result.allowed

\* C7 witness: example.gov, a text with no licence phrase at all and no
\* forbidding header: accepted for the likely-public TLD.
C7_Witness ==
    /\ license_call.called
    /\ license_call.netloc = <<"e", "x", "a", "m", "p", "l", "e", ".", "g", "o", "v">>
    /\ license_call.pdf_bytes.text = {}
    /\ license_call.pdf_bytes.parse_error = ""
    /\ ~ CallForbidding
    /\ license_call.result.allowed
    /\ license_call.result.reason
          = "Accepted: likely public TLD and no restrictive language found"

\* C8: a response that carries a forbidding X-Robots-Tag value is rejected for
\* the header, whatever the text and the domain.
C8_HeaderWins ==
    (license_call.called /\ CallForbidding) =>
        /\ license_call.result.exc = ""
        /\ ~ license_call.result.allowed
        /\ license_call.result.reason = "Rejected: X-Robots-Tag forbids indexing/AI"

\* C8 witness: a noai header on a likely-public domain with permissive text,
\* rejected.
C8_Witness ==
    /\ license_call.called
    /\ license_call.resp.headers.xrobots = XR_NOAI
    /\ CallPermissive
    /\ CallPublic
    /\ ~ license_call.result.allowed

\* C9: the processing loop goes on whatever happens to one URL: every URL of
\* the processed set eventually has its manifest record, and a URL whose
\* per-URL block raised has one record, with status error and the
\* exception's text as its reason.
C9_LoopGoesOn ==
    /\ [](\A url \in DOMAIN history.raised :
             /\ Cardinality(RecordsOf(url)) = 1
             /\ RecordOf(url).status = <<"error">>
             /\ RecordOf(url).reason = <<history.raised[url]>>)
    /\ (queue # <<>>) ~> (\A i \in 1..Len(queue) : RecordsOf(queue[i]) # {})

\* C9 witness: the block of the first of two URLs raised, and the second URL
\* was then processed and saved.
C9_Witness ==
    /\ pc = "done"
    /\ Len(queue) = 2
    /\ queue[1] \in DOMAIN history.raised
    /\ RecordOf(queue[1]).status = <<"error">>
    /\ Cardinality(RecordsOf(queue[2])) = 1
    /\ RecordOf(queue[2]).status = <<"saved">>

\* C10: a PDF body over the cap ends the read at the first chunk past the cap
\* and is recorded as skipped with reason stream_error:file_too_large, with
\* no file for the URL; a body of at most the cap is never turned away for
\* its size.
C10_SizeCap ==
    (/\ get_resp # None
     /\ Truthy(get_resp)
     /\ 200 <= get_resp.status_code /\ get_resp.status_code < 300) =>
        LET url == queue[url_i - 1]
            size == get_resp.body.size
            too_large == <<"stream_error:", "file_too_large">>
        IN  /\ Cardinality(RecordsOf(url)) = 1
            /\ size > 40 * 1024 * 1024 =>
                  /\ RecordOf(url).status = <<"skipped">>
                  /\ RecordOf(url).reason = too_large
                  /\ RecordOf(url).saved_path = <<>>
                  /\ url \notin history.wrote
                  /\ SavePath(url, get_resp.body) \notin DOMAIN files
                  /\ history.read[url] <= size
                  /\ history.read[url] <= 40 * 1024 * 1024 + CHUNK_SIZE
            /\ size <= 40 * 1024 * 1024 => RecordOf(url).reason # too_large

\* C10 witness: a 41 MB body was turned away, and no file was written.
C10_Witness ==
    /\ get_resp # None
    /\ get_resp.status_code = 200
    /\ get_resp.body.size = 41 * 1024 * 1024
    /\ RecordOf(queue[url_i - 1]).reason = <<"stream_error:", "file_too_large">>
    /\ history.read[queue[url_i - 1]] < 41 * 1024 * 1024
    /\ files = <<>>

\* The URL whose iteration ended last, with both of its requests answered
\* by a 2xx response.
LastUrl == queue[url_i - 1]

BothAnswered ==
    /\ url_i > 1
    /\ pc # "get"
    /\ head_resp # None /\ get_resp # None
    /\ 200 <= head_resp.status_code /\ head_resp.status_code < 300
    /\ 200 <= get_resp.status_code /\ get_resp.status_code < 300

\* C11: a URL ending in .pdf whose responses declare text/html and whose body
\* does not begin with %PDF is recorded as skipped with reason not_pdf, and
\* no file is written for it.
C11_HtmlRecordedNotPdf ==
    (/\ BothAnswered
     /\ EndsWith(Lower(LastUrl), <<".", "p", "d", "f">>)
     /\ Lower(head_resp.headers.ctype) = Lower(CT_HTML)
     /\ Lower(get_resp.headers.ctype) = Lower(CT_HTML)
     /\ get_resp.body.magic # <<"%", "P", "D", "F">>) =>
        /\ Cardinality(RecordsOf(LastUrl)) = 1
        /\ RecordOf(LastUrl).status = <<"skipped">>
        /\ RecordOf(LastUrl).reason = <<"not_pdf">>
        /\ LastUrl \notin history.wrote

\* How many requests safe_get has issued for url.
SentCount(url) == IF url \in DOMAIN history.sent THEN history.sent[url] ELSE 0

\* The reasons of the records written before the second request.
FirstStageReasons ==
    {<<"robots_disallow_or_request_failed">>, <<"not_pdf">>,
     <<"x-robots-tag_forbids">>}
        \cup {<<"http_">> \o Str(c) : c \in StatusCodes}

\* C12: once a URL has its manifest record, no step of the run issues another
\* request for it; a URL recorded at a check on its first response has had
\* one request at most, and no URL ever has more than two.
C12_NoRequestAfterRecord ==
    /\ [](\A i \in 1..Len(queue) :
             /\ SentCount(queue[i]) <= 2
             /\ (/\ RecordsOf(queue[i]) # {}
                 /\ RecordOf(queue[i]).reason \in FirstStageReasons)
                   => SentCount(queue[i]) <= 1)
    /\ [][\A i \in 1..Len(queue) :
             RecordsOf(queue[i]) # {} =>
                /\ SentCount(queue[i])' = SentCount(queue[i])
                /\ RecordsOf(queue[i])' = RecordsOf(queue[i])]_vars

\* C12 witness: the first of two URLs was answered 999 and recorded after one
\* request, and the run has since processed the second URL to its end.
C12_Witness ==
    /\ pc = "done"
    /\ Len(queue) = 2
    /\ RecordOf(queue[1]).reason = <<"http_", "9", "9", "9">>
    /\ SentCount(queue[1]) = 1
    /\ SentCount(queue[2]) = 2
    /\ RecordsOf(queue[2]) # {}

\* The checksum part of a path save_pdf returned.
ChecksumPrefix(path) == SubSeq(path, Len(OUT_DIR) + 1, Len(OUT_DIR) + 12)

\* The manifest row of the n-th save (the header is line 1).
SaveRow(n) == manifest.lines[n + 1]

\* C13: two successful saves of the same bytes under the same URL return the
\* same path, and the second of two in a row leaves the directory as the
\* first left it, with one file at that path holding those bytes; saves of
\* the same bytes under any URLs give file names with the same checksum
\* prefix, the first twelve characters of the sha256 their rows carry.
C13_SaveIdempotent ==
    \A i, j \in 1..Len(probe) :
        (/\ i < j
         /\ probe[i].exc = "" /\ probe[j].exc = ""
         /\ probe[i].content = probe[j].content) =>
            /\ ChecksumPrefix(probe[i].path) = ChecksumPrefix(probe[j].path)
            /\ SaveRow(i).status = <<"saved">> /\ SaveRow(j).status = <<"saved">>
            /\ SaveRow(i).saved_path = probe[i].path
            /\ SaveRow(j).saved_path = probe[j].path
            /\ SaveRow(i).sha256 = SaveRow(j).sha256
            /\ SubSeq(SaveRow(j).sha256, 1, 12) = ChecksumPrefix(probe[j].path)
            /\ probe[i].url = probe[j].url =>
                  /\ probe[i].path = probe[j].path
                  /\ probe[j].after[probe[j].path] = probe[j].content
                  /\ j = i + 1 =>
                        /\ probe[j].after = probe[i].after
                        /\ Cardinality({q \in DOMAIN probe[j].after :
                                           /\ probe[j].after[q] = probe[j].content
                                           /\ q \in {probe[i].path, probe[j].path}}) = 1

\* C13 witness: the same bytes were saved twice under one URL and once under
\* another, and the directory holds two files.
C13_Witness ==
    /\ Len(probe) = 3
    /\ \A i \in 1..3 : probe[i].exc = "" /\ probe[i].content = PlainPdf
    /\ probe[1].url = U_A /\ probe[2].url = U_A /\ probe[3].url = U_B
    /\ Cardinality(DOMAIN files) = 2

\* C14: after any number of record_manifest calls that began with no
\* manifest file, the file is the header row of the eight columns followed by
\* one row per call in call order; the header is there once, and no call
\* changes a line written before it.
C14_AppendOnly ==
    /\ [](/\ manifest.exists <=> probe # <<>>
          /\ Len(manifest.lines) = IF probe = <<>> THEN 0 ELSE 1 + Len(probe)
          /\ probe # <<>> =>
                /\ manifest.lines[1] =
                      [timestamp |-> <<"timestamp">>, source_url |-> <<"source_url">>,
                       status |-> <<"status">>, reason |-> <<"reason">>,
                       http_status |-> <<"http_status">>,
                       content_type |-> <<"content_type">>,
                       saved_path |-> <<"saved_path">>, sha256 |-> <<"sha256">>]
                /\ \A n \in 1..Len(probe) :
                      /\ DOMAIN SaveRow(n) = DOMAIN manifest.lines[1]
                      /\ SaveRow(n) # manifest.lines[1]
                      /\ SaveRow(n).source_url = probe[n].url
                      /\ SaveRow(n).status =
                            IF probe[n].exc = "" THEN <<"saved">> ELSE <<"error">>
                      /\ SaveRow(n).saved_path =
                            IF probe[n].exc = "" THEN probe[n].path ELSE <<>>)
    /\ [][/\ Len(manifest'.lines) >= Len(manifest.lines)
           /\ SubSeq(manifest'.lines, 1, Len(manifest.lines)) = manifest.lines]_vars

\* C14 witness: three calls, a saved row, an error row and a saved row, behind
\* one header.
C14_Witness ==
    /\ Len(probe) = 3
    /\ Len(manifest.lines) = 4
    /\ SaveRow(1).status = <<"saved">>
    /\ SaveRow(2).status = <<"error">>
    /\ SaveRow(3).status = <<"saved">>
    /\ SaveRow(1).source_url # SaveRow(3).source_url

\* How often the robots gate has been asked about url.
AskCount(url) == IF url \in DOMAIN history.asked THEN history.asked[url] ELSE 0

RobotsUrl(url) ==
    OriginOf(url) \o <<"/", "r", "o", "b", "o", "t", "s", ".", "t", "x", "t">>

\* C15: a step that asks the gate about a URL whose origin the cache holds
\* answers by the cached rules and retrieves no /robots.txt; no step replaces
\* or removes an entry of the cache.
C15_CachedRulesDecide ==
    [][/\ \A base \in DOMAIN cache :
             base \in DOMAIN cache' /\ cache'[base] = cache[base]
       /\ \A url \in DOMAIN history'.asked :
             (AskCount(url)' > AskCount(url) /\ OriginOf(url) \in DOMAIN cache) =>
                /\ history'.gate[url]
                      = ~ \E prefix \in cache[OriginOf(url)] :
                            StartsWith(urlparse(url).path, prefix)
                /\ SentCount(RobotsUrl(url))' = SentCount(RobotsUrl(url))
                /\ SentCount(RobotsUrl(url)) >= 1]_vars

\* C15 witness: the rules retrieved for the seed page's origin disallow /y;
\* the gate, asked about a URL under /y of that origin, denied it with that
\* one retrieval.
C15_Witness ==
    /\ OriginOf(SEED) \in DOMAIN cache
    /\ cache[OriginOf(SEED)] = {<<"/", "y">>}
    /\ AskCount(SEED) = 1 /\ history.gate[SEED]
    /\ AskCount(U_B) = 1 /\ ~ history.gate[U_B]
    /\ SentCount(RobotsUrl(U_B)) = 1

\* C16: what every discovery call returned is collected in one set; the
\* processing loop iterates that set (after the domain filter) with each URL
\* string once, however often it was found, and a URL gets one record and two
\* requests at most.
C16_EachUrlOnce ==
    /\ pc = "discover" => seen_urls = history.found
    /\ pc \in {"head", "get"} =>
          /\ Elems(queue) = seen_urls
          /\ seen_urls =
                {u \in history.found :
                    \/ config.ALLOWED_DOMAINS = <<>>
                    \/ \E i \in 1..Len(config.ALLOWED_DOMAINS) :
                          \/ EndsWith(Lower(urlparse(u).netloc),
                                      Lower(config.ALLOWED_DOMAINS[i]))
                          \/ Lower(urlparse(u).netloc)
                                = LStripDot(Lower(config.ALLOWED_DOMAINS[i]))}
    /\ Len(queue) = Cardinality(Elems(queue))
    /\ \A u \in history.found :
          /\ Cardinality(RecordsOf(u)) <= 1
          /\ SentCount(u) <= 2
          /\ AskCount(u) <= 2
          /\ u \notin Elems(queue) => RecordsOf(u) = {} /\ SentCount(u) = 0

\* C16 witness: a URL the search answer and the seed page both gave was
\* processed with another, and has its one record.
C16_Witness ==
    /\ pc = "done"
    /\ Len(queue) = 2
    /\ U_B \in history.found_again
    /\ history.requests # {}
    /\ \E r, q \in history.requests :
          /\ r.by = "discover_via_bing"
          /\ q.by = "safe_get" /\ q.url = SEED
    /\ Cardinality(RecordsOf(U_B)) = 1
    /\ SentCount(U_B) = 2

\* The signals of the response put to the checks.
ProbeSuffix == EndsWith(Lower(probe[1].url), <<".", "p", "d", "f">>)

ProbeMagic == StartsWith(probe[1].content, <<"%", "P", "D", "F">>)

ProbeToken ==
    \E i \in 1..98 :
        /\ i + 2 <= Len(probe[1].content)
        /\ <<probe[1].content[i], probe[1].content[i + 1], probe[1].content[i + 2]>>
              = <<"P", "D", "F">>

ProbeTypeSaysPdf == Contains(Lower(probe[1].content_type), <<"p", "d", "f">>)

\* C17: a response with no .pdf suffix in its URL, no PDF signature at the
\* start of its payload and no pdf in its content type is not taken for a
\* PDF by the is_pdf test of _download_pdf, nor by the two checks of main().
C17_NoSignalNotPdf ==
    (/\ probe[1].called
     /\ ~ ProbeSuffix /\ ~ ProbeMagic /\ ~ ProbeTypeSaysPdf) =>
        /\ ~ probe[1].is_pdf
        /\ probe[1].not_pdf
        /\ probe[1].not_pdf_after_get

\* C17 with the fourth signal of the is_pdf test: if, besides, the token PDF
\* does not occur in the first hundred bytes of the payload, the response is
\* taken for a PDF by none of the three checks.
C17_NoSignalNoTokenNotPdf ==
    (/\ probe[1].called
     /\ ~ ProbeSuffix /\ ~ ProbeMagic /\ ~ ProbeTypeSaysPdf /\ ~ ProbeToken) =>
        /\ ~ probe[1].is_pdf
        /\ probe[1].not_pdf
        /\ probe[1].not_pdf_after_get

\* C17 witness: an HTML page whose payload says PDF only past its first
\* hundred bytes was found to be no PDF.
C17_Witness ==
    /\ probe[1].called
    /\ probe[1].url = U_H
    /\ probe[1].content_type = CT_HTML
    /\ Len(probe[1].content) > 100
    /\ ~ ProbeToken
    /\ ~ probe[1].is_pdf

DiscoveredEndInPdf ==
    \A i \in 1..Len(queue) : EndsWith(Lower(queue[i]), <<".", "p", "d", "f">>)

\* No request went out, the gate was not asked, the manifest got no row and
\* no file was written.
Quiet ==
    /\ history.requests = {}
    /\ history.asked = <<>>
    /\ Len(manifest.lines) = history.old_lines
    /\ files = <<>>
    /\ clock = StartTime

NothingConfigured == config.SEARCH_TERMS = <<>> /\ config.SEED_URLS = <<>>

\* main() has returned without entering either discovery loop.
HaltedBeforeDiscovery == pc = "done" /\ term_i = 1 /\ seed_i = 1

\* C19: with no search term and no seed, main() ends before any request,
\* manifest row or file; and nothing else ends the run before discovery
\* begins.
C19_OnlyEmptyConfigHalts ==
    /\ NothingConfigured => (Quiet /\ pc \in {"start", "done"})
    /\ HaltedBeforeDiscovery => NothingConfigured

\* C19 with the other halt of main(): the run ends before discovery, with no
\* request, row or file, if no term and no seed is configured or if
\* SearchTerms cannot be imported, and in no other case.
C19_EmptyConfigOrImportHalts ==
    /\ (NothingConfigured \/ config.import_error # "")
          => (Quiet /\ pc \in {"start", "done"})
    /\ HaltedBeforeDiscovery => (NothingConfigured \/ config.import_error # "")

\* C19 witness: a run with an API key and an allow list but no term and no
\* seed has ended, and the manifest of an earlier run is as it was.
C19_Witness ==
    /\ pc = "done"
    /\ NothingConfigured
    /\ config.import_error = ""
    /\ config.BING_API_KEY = <<"k">>
    /\ config.ALLOWED_DOMAINS # <<>>
    /\ manifest.exists /\ Len(manifest.lines) = 2
    /\ Quiet

\* No API credential: BING_API_KEY is unset or blank.
NoCredential ==
    \A i \in 1..Len(config.BING_API_KEY) : config.BING_API_KEY[i] = " "

\* C20: without an API credential no search query is ever sent; an iteration
\* over a search term adds no URL, sends nothing, takes no time and leaves the
\* run in discovery, and a run that ends has crawled every seed.
C20_NoKeyNoQuery ==
    /\ [](NoCredential =>
             /\ \A r \in history.requests : r.by # "discover_via_bing"
             /\ (pc = "done" /\ config.import_error = "" /\ ~ NothingConfigured)
                   => /\ term_i = Len(config.SEARCH_TERMS) + 1
                      /\ seed_i = Len(config.SEED_URLS) + 1)
    /\ [][(NoCredential /\ term_i' # term_i) =>
             /\ seen_urls' = seen_urls
             /\ history' = history
             /\ clock' = clock
             /\ pc' = "discover"]_vars

\* C20 witness: with terms and a seed configured and the key blank, the run
\* went through the term, crawled the seed and saved a document.
C20_Witness ==
    /\ NoCredential
    /\ config.SEARCH_TERMS # <<>>
    /\ config.SEED_URLS # <<>>
    /\ pc = "done"
    /\ term_i = 2 /\ seed_i = 2
    /\ "saved" \in RunStatuses
    /\ \A r \in history.requests : r.by # "discover_via_bing"

\* C21: in main() a failed API query or seed crawl gives an empty result and
\* discovery goes on with the next term or seed: no discovery call ends the
\* run, each call moves the run to the next term or seed, and what the calls
\* before it returned is kept.
C21_DiscoveryFailureIsolated ==
    /\ pc # "crashed"
    /\ pc = "discover" => history.found \subseteq seen_urls

\* This run wrote a file for url, or recorded it as saved.
WroteOrSaved(url) ==
    \/ url \in history.wrote
    \/ \E i \in RecordsOf(url) : manifest.lines[i].status = <<"saved">>

\* The checks of one iteration, on the responses and the licence call the
\* iteration left behind.
GateAllowed(url) == url \in DOMAIN history.gate /\ history.gate[url]

FirstResponsePassed(url) ==
    /\ head_resp # None
    /\ Truthy(head_resp)
    /\ 200 <= head_resp.status_code /\ head_resp.status_code < 400
    /\ \/ Contains(Lower(head_resp.headers.ctype), <<"p", "d", "f">>)
       \/ EndsWith(Lower(url), <<".", "p", "d", "f">>)
    /\ ~ CarriesForbiddingTag(head_resp)

SecondResponsePassed(url) ==
    /\ get_resp # None
    /\ Truthy(get_resp)
    /\ 200 <= get_resp.status_code /\ get_resp.status_code < 300
    /\ get_resp.body.size <= 40 * 1024 * 1024
    /\ url \in DOMAIN history.read
    /\ history.read[url] = get_resp.body.size

LicenceAccepted ==
    /\ license_call.called
    /\ license_call.result.exc = ""
    /\ license_call.result.allowed

\* C22: a file is written and a saved record appended for a URL only after
\* the robots gate allowed it, its first response had a status in 200..399,
\* a PDF signal and no forbidding X-Robots-Tag, its second response had a 2xx
\* status, the whole body was read within the 40 MB cap, and is_public_enough
\* accepted; an iteration that ended at its first response wrote nothing.
C22_SavedOnlyAfterAllChecks ==
    (pc \in {"head", "done"} /\ url_i > 1) =>
        /\ WroteOrSaved(LastUrl) =>
              /\ GateAllowed(LastUrl)
              /\ FirstResponsePassed(LastUrl)
              /\ SentCount(LastUrl) = 2
              /\ SecondResponsePassed(LastUrl)
              /\ LicenceAccepted
        /\ \A url \in Processed :
              (\E i \in RecordsOf(url) :
                   manifest.lines[i].reason \in FirstStageReasons) =>
                  ~ WroteOrSaved(url)

\* C22 witness: a.gov's PDF passed every check, its file is in the output
\* directory and its record says saved.
C22_Witness ==
    /\ pc = "done" /\ url_i > 1
    /\ LastUrl = U_A
    /\ head_resp # None /\ get_resp # None
    /\ RecordsOf(U_A) # {}
    /\ RecordOf(U_A).status = <<"saved">>
    /\ RecordOf(U_A).saved_path \in DOMAIN files
    /\ GateAllowed(U_A)
    /\ head_resp.status_code = 200 /\ get_resp.status_code = 200
    /\ LicenceAccepted

\* The interval of the limiter a key belongs to.
IntervalOf(key) ==
    IF key = <<"global_rl">> THEN SECONDS_PER_REQUEST ELSE PER_DOMAIN_DELAY

\* C23: a call of RateLimiter.wait or PerDomainLimiter.wait returns, at or
\* after the time of the call, having slept no more than the limiter's
\* interval; the time it records for its key is the time of return; and the
\* times recorded by two successive acquisitions of a key are at least the
\* limiter's interval apart.
C23_WaitReturnsAndSpaces ==
    \A i \in 1..Len(probe) :
        LET c == probe[i]
        IN  /\ c.returned_at >= c.called_at
            /\ c.returned_at - c.called_at <= IntervalOf(c.key)
            /\ c.after_last = c.returned_at
            /\ c.again => c.after_last - c.before_last >= IntervalOf(c.key)

\* C23 witness: a key was acquired twice in the same second, the second call
\* slept the whole interval; another call came late and did not sleep.
C23_Witness ==
    /\ \E i \in 1..Len(probe) :
          /\ probe[i].again
          /\ probe[i].called_at = probe[i].before_last
          /\ probe[i].returned_at = probe[i].called_at + IntervalOf(probe[i].key)
    /\ \E i \in 1..Len(probe) :
          /\ probe[i].again
          /\ probe[i].returned_at = probe[i].called_at

\* The requests the engine called last sent for its query number q.
AttemptsOf(q) == {i \in 1..Len(probe.asked) : probe.asked[i].query = q}

\* C24: an engine's query answered with a status other than 200 is sent
\* again (after a backoff, up to a bounded number of attempts) before
\* search_and_download_pdfs moves on to the next engine.
C24_RetriedBeforeNextEngine ==
    \A i \in 1..Len(probe.asked) :
        (~ probe.asked[i].raised /\ probe.asked[i].status_code # 200) =>
            Cardinality(AttemptsOf(probe.asked[i].query)) > 1

\* C25: a call of crawl_for_pdfs is made for a seed and sends one page
\* request at most; it returns no URL unless the response has a 2xx status
\* and a content type containing text/html; and what the loop of main()
\* works through is what discovery returned: no URL is added by following
\* the links of a PDF URL.
C25_CrawlSeedPageOnly ==
    /\ \A i \in 1..Len(history.crawled) :
          LET c == history.crawled[i]
          IN  /\ c.seed \in Elems(config.SEED_URLS)
              /\ c.seed \notin history.found
              /\ SentCount(c.seed)
                    <= Cardinality({j \in 1..Len(history.crawled) :
                                       history.crawled[j].seed = c.seed})
              /\ c.urls # {} =>
                    /\ c.resp # None
                    /\ 200 <= c.resp.status_code /\ c.resp.status_code < 300
                    /\ Contains(Lower(c.resp.headers.ctype),
                                <<"t", "e", "x", "t", "/", "h", "t", "m", "l">>)
    /\ Elems(queue) \subseteq history.found
    /\ \A r \in history.requests :
          r.by = "safe_get" =>
              r.url \in history.found \cup Elems(config.SEED_URLS)

\* C25 witness: the seed page came as application/pdf with a link to a PDF in
\* its body, one request was sent, and crawl_for_pdfs returned nothing.
C25_Witness ==
    /\ Len(history.crawled) = 1
    /\ history.crawled[1].resp # None
    /\ history.crawled[1].resp.status_code = 200
    /\ history.crawled[1].resp.headers.ctype = CT_PDF
    /\ history.crawled[1].resp.body.hrefs = {U_A}
    /\ history.crawled[1].urls = {}
    /\ SentCount(SEED) = 1

\* The rows this run appended to the manifest.
RunRows ==
    {manifest.lines[i] :
        i \in {j \in (history.old_lines + 1)..Len(manifest.lines) :
                 manifest.lines[j] # FIELDNAMES}}

\* The file at path holds bytes with the checksum sha.
HoldsChecksum(path, sha) ==
    /\ path \in DOMAIN files
    /\ files[path].id \in DOMAIN sha256_table
    /\ sha256_of_bytes(files[path]) = sha

\* C26: after any prefix of a run, every saved row names a path at which a
\* file exists whose bytes have the row's sha256 and whose name begins with
\* the first 12 hex digits of it; every skipped, rejected or error row has
\* an empty saved_path; and every file in the output directory is named by a
\* saved row.
C26_ManifestMatchesFiles ==
    /\ \A path \in DOMAIN files :
          \E row \in RunRows : row.status = <<"saved">> /\ row.saved_path = path
    /\ \A row \in RunRows :
          /\ row.status = <<"saved">> =>
                /\ HoldsChecksum(row.saved_path, row.sha256)
                /\ ChecksumPrefix(row.saved_path) = SubSeq(row.sha256, 1, 12)
          /\ row.status \in {<<"skipped">>, <<"rejected">>, <<"error">>} =>
                row.saved_path = <<>>

\* The host of url equals an allow-listed domain or is a subdomain of one.
AllowListed(url) ==
    \E i \in 1..Len(config.ALLOWED_DOMAINS) :
        LET domain == LStripDot(Lower(config.ALLOWED_DOMAINS[i]))
        IN  \/ domain_of(url) = domain
            \/ EndsWith(domain_of(url), <<".">> \o domain)

\* The URLs the per-URL block has requested or recorded.
TakenThrough ==
    {url \in history.found : SentCount(url) > 0 \/ RecordsOf(url) # {}}

\* C27: with a non-empty ALLOWED_DOMAINS, every URL in the processed set and
\* every URL requested or recorded by the per-URL block has a host that
\* equals an allow-listed domain or is a subdomain of one.
C27_OnlyAllowListedHosts ==
    config.ALLOWED_DOMAINS # <<>> =>
        /\ pc # "discover" => \A i \in 1..Len(queue) : AllowListed(queue[i])
        /\ \A url \in TakenThrough : AllowListed(url)

\* The path of the file an entry of downloaded_files stands for.
EntryPath(entry) ==
    base_path \o <<"/">> \o entry.category \o <<"/">> \o entry.filename

\* The sum of the per-category counts of a report.
RECURSIVE SumCounts(_, _)
SumCounts(categories, left) ==
    IF left = {} THEN 0
    ELSE LET c == CHOOSE x \in left : TRUE
         IN  categories[c].count + SumCounts(categories, left \ {c})

CategoryCounts(report) ==
    SumCounts([c \in DOMAIN report.categories |-> [count |-> report.categories[c]]],
              DOMAIN report.categories)

\* C28: after any sequence of _download_pdf calls downloaded_files holds one
\* entry per file the session wrote and no other; a call that fails on the
\* network, gets no PDF, gets under 1024 bytes or finds the file present adds
\* no entry and leaves the files as they were; total_files of the report and
\* the sum of its per-category counts equal the number of entries.
C28_EntriesMatchFilesWritten ==
    LET entries == probe.downloaded_files
        last == probe.last
        report == generate_summary_report(entries)
    IN  /\ {EntryPath(entries[i]) : i \in 1..Len(entries)} = probe.wrote
        /\ Len(entries) = Cardinality(probe.wrote)
        /\ (/\ last.called
            /\ last.raised \/ ~ last.is_pdf \/ last.size < 1024 \/ last.present) =>
              /\ Len(entries) = last.entries_before
              /\ probe.disk = last.disk_before
              /\ last.written = <<>>
        /\ report.total_files = Len(entries)
        /\ CategoryCounts(report) = Len(entries)
        /\ probe.report # NoReport => probe.report = report

====
